---- MODULE Spec2Model ----
(***************************************************************************)
(* Model of the conversation session core of ShikAI: identity resolution,  *)
(* store naming and renaming, history reconciliation, title scheduling and *)
(* the turn loop of main().                                                *)
(*                                                                         *)
(* Strings the code inspects are sequences of one-character strings; the   *)
(* literals "conversation-logs", "/", "conversation-" and ".json" are      *)
(* single elements, so a path is                                           *)
(*   <<"conversation-logs", "/", "conversation-">> \o middle \o <<".json">>*)
(* and the characters the model draws never contain "." or "/".            *)
(***************************************************************************)
EXTENDS Integers, Sequences, FiniteSets, TLC

VARIABLES
    pc,                     \* position of main() in its control flow
    files,                  \* the file system: path -> content, for existing files
    clientMessages,         \* main: clientMessages (the history)
    knownIds,               \* main: knownIds
    messageCount,           \* main: messageCount
    isFirstUserInput,       \* main: isFirstUserInput
    isResumedConversation,  \* main: isResumedConversation
    currentChatTitle,       \* main: currentChatTitle
    currentFilePath,        \* main: currentFilePath
    conversationId,         \* main: conversationId
    skipNextQuestion,       \* main: skipNextQuestion
    userInput,              \* main: userInput
    finalMessages,          \* main: the batch of the turn's model call
    steps,                  \* main: the number of steps of that call
    turns,                  \* number of turns started (bounded)
    selectedConversation,   \* main: selectedConversation (empty for null)
    continueAnswer,         \* handleMaxStepsContinuation: continueAnswer
    shutdownLog,            \* main: the effects of the finally block, in order
    arg,                    \* inputs of the last call of a function under test
    ret                     \* its result

vars == <<pc, files, clientMessages, knownIds, messageCount, isFirstUserInput,
          isResumedConversation, currentChatTitle, currentFilePath,
          conversationId, skipNextQuestion, userInput, finalMessages, steps,
          turns, selectedConversation, continueAnswer, shutdownLog, arg, ret>>

sessionVars == <<pc, files, clientMessages, knownIds, messageCount,
                 isFirstUserInput, isResumedConversation, currentChatTitle,
                 currentFilePath, conversationId, skipNextQuestion, userInput,
                 finalMessages, steps, turns, selectedConversation,
                 continueAnswer, shutdownLog>>

\* ------------------------------------------------------------------------
\* Characters and strings
\* ------------------------------------------------------------------------

Digits == {"0", "1", "2", "3", "4", "5", "6", "7", "8", "9"}

UpperChars == <<"A", "B", "C", "D", "E", "F", "G", "H", "I", "J", "K", "L", "M",
                "N", "O", "P", "Q", "R", "S", "T", "U", "V", "W", "X", "Y", "Z">>

LowerChars == <<"a", "b", "c", "d", "e", "f", "g", "h", "i", "j", "k", "l", "m",
                "n", "o", "p", "q", "r", "s", "t", "u", "v", "w", "x", "y", "z">>

IsUpper(c) == \E i \in 1..26 : UpperChars[i] = c

IsLower(c) == \E i \in 1..26 : LowerChars[i] = c

\* \s of a JavaScript regular expression, for the characters a string of
\* the model can hold (\v and the spaces outside ASCII are not among them)
IsSpace(c) == c \in {" ", "\t", "\n", "\r", "\f"}

\* \w of a JavaScript regular expression
IsWordChar(c) == IsUpper(c) \/ IsLower(c) \/ c \in Digits \/ c = "_"

\* . of a JavaScript regular expression: anything but a line terminator
\* (of the characters a string of the model can hold, \n and \r)
IsDotChar(c) == c \notin {"\n", "\r"}

LowerOf(c) == IF IsUpper(c)
              THEN LowerChars[CHOOSE i \in 1..26 : UpperChars[i] = c]
              ELSE c

UpperOf(c) == IF IsLower(c)
              THEN UpperChars[CHOOSE i \in 1..26 : LowerChars[i] = c]
              ELSE c

\* String.prototype.toLowerCase
toLowerCase(s) == [i \in 1..Len(s) |-> LowerOf(s[i])]

RECURSIVE TrimStart(_)
TrimStart(s) == IF s # <<>> /\ IsSpace(Head(s)) THEN TrimStart(Tail(s)) ELSE s

RECURSIVE TrimEnd(_)
TrimEnd(s) == IF s # <<>> /\ IsSpace(s[Len(s)])
              THEN TrimEnd(SubSeq(s, 1, Len(s) - 1))
              ELSE s

\* String.prototype.trim
trim(s) == TrimEnd(TrimStart(s))

\* ------------------------------------------------------------------------
\* Identity Resolver
\* ------------------------------------------------------------------------

\* the shape of /^\d{4}-\d{2}-\d{2}T\d{2}-\d{2}-\d{2}-\d{3}Z$/ : "d" stands
\* for \d, every other element for itself
timestampPattern ==
    <<"d", "d", "d", "d", "-", "d", "d", "-", "d", "d", "T", "d", "d", "-",
      "d", "d", "-", "d", "d", "-", "d", "d", "d", "Z">>

\* s, from its first character on, starts with a canonical timestamp
StartsWithTimestamp(s) ==
    /\ Len(s) >= Len(timestampPattern)
    /\ \A i \in 1..Len(timestampPattern) :
          IF timestampPattern[i] = "d" THEN s[i] \in Digits
                                       ELSE s[i] = timestampPattern[i]

\* timestampPattern.test(id): the pattern is anchored at both ends
TimestampTest(id) == StartsWithTimestamp(id) /\ Len(id) = Len(timestampPattern)

\* mutant: the pattern without its end anchor
ensureProperConversationId_Unanchored(id, fallbackTimestamp) ==
    IF StartsWithTimestamp(id) THEN id ELSE fallbackTimestamp

\* mutant: the candidate is returned untested
ensureProperConversationId_Untested(id, fallbackTimestamp) == id

ensureProperConversationId(id, fallbackTimestamp) ==
    IF TimestampTest(id) THEN id ELSE fallbackTimestamp

\* ------------------------------------------------------------------------
\* Title Scheduler: the predicate
\* ------------------------------------------------------------------------

\* a % b === 0 for integers a >= 0 and b: b = 0 gives NaN, which is not 0;
\* the sign of b does not change whether the remainder is 0
RemainderIsZero(a, b) ==
    IF b = 0 THEN FALSE
    ELSE a % (IF b < 0 THEN -b ELSE b) = 0

\* mutant: without the messageCount > 0 test
shouldUpdateTitle_NoPositive(mc, interval, isFirst, title) ==
    /\ RemainderIsZero(mc, interval)
    /\ ~isFirst
    /\ title # <<>>

\* mutant: due from the first multiple on
shouldUpdateTitle_FromInterval(mc, interval, isFirst, title) ==
    /\ mc >= interval
    /\ ~isFirst
    /\ title # <<>>

shouldUpdateTitle(mc, interval, isFirst, title) ==
    /\ mc > 0
    /\ RemainderIsZero(mc, interval)
    /\ ~isFirst
    /\ title # <<>>

\* ------------------------------------------------------------------------
\* Store Naming
\* ------------------------------------------------------------------------

logDir == <<"conversation-logs">>

\* the characters /[^a-zA-Z0-9\s\-_]/g leaves in place
IsTitleChar(c) == IsWordChar(c) \/ IsSpace(c) \/ c = "-"

RECURSIVE StripTitle(_)
\* .replace(/[^a-zA-Z0-9\s\-_]/g, "")
StripTitle(s) ==
    IF s = <<>> THEN <<>>
    ELSE (IF IsTitleChar(Head(s)) THEN <<Head(s)>> ELSE <<>>)
         \o StripTitle(Tail(s))

RECURSIVE SpacesToUnderscore(_)
\* .replace(/\s+/g, "_"): every maximal run of white space becomes one "_"
SpacesToUnderscore(s) ==
    IF s = <<>> THEN <<>>
    ELSE IF IsSpace(Head(s))
         THEN <<"_">> \o SpacesToUnderscore(TrimStart(s))
         ELSE <<Head(s)>> \o SpacesToUnderscore(Tail(s))

\* cleanTitle of getConversationFileName
CleanTitle(chatTitle) == toLowerCase(SpacesToUnderscore(StripTitle(chatTitle)))

\* the file name conversation-{middle}.json
FileNameOf(middle) == <<"conversation-">> \o middle \o <<".json">>

\* path.join(dir, fileName) for a plain file name
PathJoin(dir, fileName) == dir \o <<"/">> \o fileName

getConversationFileName(dir, id, chatTitle) ==
    IF chatTitle # <<>>
    THEN dir \o <<"/">> \o FileNameOf(id \o <<"-">> \o CleanTitle(chatTitle))
    ELSE dir \o <<"/">> \o FileNameOf(id)

\* file.startsWith("conversation-") && file.endsWith(".json")
IsConversationFileName(fileName) ==
    /\ Len(fileName) >= 2
    /\ fileName[1] = "conversation-"
    /\ fileName[Len(fileName)] = ".json"

\* what lies between "conversation-" and ".json" in a conversation file name
MiddleOf(fileName) == SubSeq(fileName, 2, Len(fileName) - 1)

\* .replace(/\b\w/g, (char) => char.toUpperCase())
TitleCase(s) ==
    [i \in 1..Len(s) |->
        IF IsWordChar(s[i]) /\ (i = 1 \/ ~IsWordChar(s[i - 1]))
        THEN UpperOf(s[i]) ELSE s[i]]

\* fileName.match(/^conversation-(\d{4}-...-\d{3}Z)-(.+)\.json$/)
TitledFileNameMatch(fileName) ==
    /\ IsConversationFileName(fileName)
    /\ LET mid == MiddleOf(fileName)
       IN  /\ StartsWithTimestamp(mid)
           /\ Len(mid) >= Len(timestampPattern) + 2
           /\ mid[Len(timestampPattern) + 1] = "-"
           /\ \A i \in (Len(timestampPattern) + 2)..Len(mid) : IsDotChar(mid[i])

\* null is the empty sequence: a title that matched (.+) is never empty
extractTitleFromFileName(fileName) ==
    IF TitledFileNameMatch(fileName)
    THEN LET mid  == MiddleOf(fileName)
             slug == SubSeq(mid, Len(timestampPattern) + 2, Len(mid))
         IN  TitleCase([i \in 1..Len(slug) |->
                           IF slug[i] = "_" THEN " " ELSE slug[i]])
    ELSE <<>>

\* fs.existsSync(path)
existsSync(fs, path) == path \in DOMAIN fs

\* fs.renameSync(old, new) when it succeeds
renameSync(fs, old, new) ==
    [p \in (DOMAIN fs \ {old}) \cup {new} |->
        IF p = new THEN fs[old] ELSE fs[p]]

\* fs.writeFileSync(path, JSON.stringify(messages, null, 2))
writeFileSync(fs, path, messages) ==
    [p \in DOMAIN fs \cup {path} |-> IF p = path THEN messages ELSE fs[p]]

\* mutant: without the test that the new path is free
updateConversationFile_Overwrites(fs, dir, oldFilePath, id, newTitle, ioError) ==
    LET newFilePath == getConversationFileName(dir, id, newTitle)
    IN  IF /\ oldFilePath # newFilePath
           /\ existsSync(fs, oldFilePath)
           /\ ~ioError
        THEN [path |-> newFilePath,
              files |-> renameSync(fs, oldFilePath, newFilePath)]
        ELSE [path |-> oldFilePath, files |-> fs]

\* mutant: the new path is returned whether or not the file was renamed
updateConversationFile_ReturnsNew(fs, dir, oldFilePath, id, newTitle, ioError) ==
    LET newFilePath == getConversationFileName(dir, id, newTitle)
    IN  IF /\ oldFilePath # newFilePath
           /\ existsSync(fs, oldFilePath)
           /\ ~existsSync(fs, newFilePath)
           /\ ~ioError
        THEN [path |-> newFilePath,
              files |-> renameSync(fs, oldFilePath, newFilePath)]
        ELSE [path |-> newFilePath, files |-> fs]

\* mutant: the file is copied to the new path and stays at the old one
updateConversationFile_Copies(fs, dir, oldFilePath, id, newTitle, ioError) ==
    LET newFilePath == getConversationFileName(dir, id, newTitle)
    IN  IF /\ oldFilePath # newFilePath
           /\ existsSync(fs, oldFilePath)
           /\ ~existsSync(fs, newFilePath)
           /\ ~ioError
        THEN [path |-> newFilePath,
              files |-> writeFileSync(fs, newFilePath, fs[oldFilePath])]
        ELSE [path |-> oldFilePath, files |-> fs]

\* updateConversationFile on the file system fs; ioError says that
\* fs.renameSync throws when it is reached. The result is the returned path
\* and the file system afterwards.
updateConversationFile(fs, dir, oldFilePath, id, newTitle, ioError) ==
    LET newFilePath == getConversationFileName(dir, id, newTitle)
    IN  IF /\ oldFilePath # newFilePath
           /\ existsSync(fs, oldFilePath)
           /\ ~existsSync(fs, newFilePath)
           /\ ~ioError
        THEN [path |-> newFilePath,
              files |-> renameSync(fs, oldFilePath, newFilePath)]
        ELSE [path |-> oldFilePath, files |-> fs]

\* mutant: the new path is returned when the rename throws
fixMalformedFilename_NewPathOnError(fs, dir, malformedFileName, properConversationId, title, ioError) ==
    LET oldFilePath == PathJoin(dir, malformedFileName)
        newFilePath == getConversationFileName(dir, properConversationId, title)
    IN  IF /\ oldFilePath # newFilePath
           /\ existsSync(fs, oldFilePath)
           /\ ~existsSync(fs, newFilePath)
        THEN [path |-> newFilePath,
              files |-> IF ioError THEN fs
                        ELSE renameSync(fs, oldFilePath, newFilePath)]
        ELSE [path |-> oldFilePath, files |-> fs]

\* fixMalformedFilename, in the same form
fixMalformedFilename(fs, dir, malformedFileName, properConversationId, title, ioError) ==
    LET oldFilePath == PathJoin(dir, malformedFileName)
        newFilePath == getConversationFileName(dir, properConversationId, title)
    IN  IF /\ oldFilePath # newFilePath
           /\ existsSync(fs, oldFilePath)
           /\ ~existsSync(fs, newFilePath)
           /\ ~ioError
        THEN [path |-> newFilePath,
              files |-> renameSync(fs, oldFilePath, newFilePath)]
        ELSE [path |-> oldFilePath, files |-> fs]

\* ------------------------------------------------------------------------
\* History Reconciler
\* ------------------------------------------------------------------------

\* A message is [role, id, content, hint]. Ids are opaque strings in the
\* code, compared for equality only; the model writes them as positive
\* numbers and NoId for a message without a (truthy) id. hint = TRUE when
\* providerOptions.anthropic.cacheControl is set.
NoId == 0

Msg(role, id, content, hint) ==
    [role |-> role, id |-> id, content |-> content, hint |-> hint]

\* mutant: the hints of all earlier messages are deleted
StripAssistantHints_AllRoles(history, cache) ==
    IF cache
    THEN [i \in 1..Len(history) |-> [history[i] EXCEPT !.hint = FALSE]]
    ELSE history

\* mutant: the hints of earlier assistant messages are left in place
StripAssistantHints_Never(history, cache) == history

\* the forEach of appendFinalMessages: delete the cacheControl of assistant
\* messages
StripAssistantHints(history, cache) ==
    [i \in 1..Len(history) |->
        IF cache /\ history[i].role = "assistant" /\ history[i].hint
        THEN [history[i] EXCEPT !.hint = FALSE]
        ELSE history[i]]

RECURSIVE AppendLoop(_, _, _, _, _)
\* the for loop of appendFinalMessages from index i (1-based) on
AppendLoop(history, batch, known, cache, i) ==
    IF i > Len(batch) THEN [history |-> history, knownIds |-> known]
    ELSE LET m == batch[i]
         IN  IF /\ m.role \in {"assistant", "tool"}
                /\ m.id # NoId
                /\ m.id \notin known
             THEN LET m2 == IF cache /\ i = Len(batch) /\ m.role = "assistant"
                            THEN [m EXCEPT !.hint = TRUE]
                            ELSE m
                  IN  AppendLoop(Append(history, m2), batch,
                                 known \cup {m.id}, cache, i + 1)
             ELSE AppendLoop(history, batch, known, cache, i + 1)

RECURSIVE AppendLoop_NoKnownAdd(_, _, _, _, _)
\* mutant loop: knownIds.add(m.id) is missing
AppendLoop_NoKnownAdd(history, batch, known, cache, i) ==
    IF i > Len(batch) THEN [history |-> history, knownIds |-> known]
    ELSE LET m == batch[i]
         IN  IF /\ m.role \in {"assistant", "tool"}
                /\ m.id # NoId
                /\ m.id \notin known
             THEN LET m2 == IF cache /\ i = Len(batch) /\ m.role = "assistant"
                            THEN [m EXCEPT !.hint = TRUE]
                            ELSE m
                  IN  AppendLoop_NoKnownAdd(Append(history, m2), batch, known,
                                            cache, i + 1)
             ELSE AppendLoop_NoKnownAdd(history, batch, known, cache, i + 1)

\* mutant: appendFinalMessages that never records an id
appendFinalMessages_NoKnownAdd(history, batch, known, cache) ==
    AppendLoop_NoKnownAdd(StripAssistantHints(history, cache), batch, known,
                          cache, 1)

\* mutant: the new messages are put in front of the history
appendFinalMessages_InFront(history, batch, known, cache) ==
    LET r == AppendLoop(<<>>, batch, known, cache, 1)
    IN  [history |-> r.history \o StripAssistantHints(history, cache),
         knownIds |-> r.knownIds]

\* appendFinalMessages: the history and the knownIds afterwards
appendFinalMessages(history, batch, known, cache) ==
    AppendLoop(StripAssistantHints(history, cache), batch, known, cache, 1)

\* appendFinalMessages pushes the objects of finalMessages themselves, and
\* line 277-281 sets the cacheControl on the object: the caller's
\* finalMessages afterwards, its last message hinted when it is an assistant
\* message whose id was new when the loop came to it
finalMessagesAfter(batch, known, cache) ==
    IF batch = <<>> THEN batch
    ELSE LET n      == Len(batch)
             m      == batch[n]
             before == AppendLoop(<<>>, SubSeq(batch, 1, n - 1), known,
                                  cache, 1).knownIds
         IN  IF /\ cache
                /\ m.role = "assistant"
                /\ m.id # NoId
                /\ m.id \notin before
             THEN [batch EXCEPT ![n].hint = TRUE]
             ELSE batch

\* ------------------------------------------------------------------------
\* Conversation Catalog
\* ------------------------------------------------------------------------

\* A directory listing is a sequence, in readdir order, of
\* [fileName, mtime, content]; content is a sequence of messages, or Corrupt
\* when JSON.parse rejects it.
Corrupt == "corrupt"

\* files.slice(0, 10)
CatalogCap == 10

DigitChars == <<"0", "1", "2", "3", "4", "5", "6", "7", "8", "9">>

RECURSIVE ToDecimal(_)
\* (n).toString() for n >= 0
ToDecimal(n) ==
    IF n < 10 THEN <<DigitChars[n + 1]>>
    ELSE ToDecimal(n \div 10) \o <<DigitChars[(n % 10) + 1]>>

RECURSIVE InsertByMtime(_, _)
\* e put behind every element that is not older than it
InsertByMtime(sorted, e) ==
    IF sorted = <<>> THEN <<e>>
    ELSE IF Head(sorted).mtime >= e.mtime
         THEN <<Head(sorted)>> \o InsertByMtime(Tail(sorted), e)
         ELSE <<e>> \o sorted

RECURSIVE SortByMtime(_)
\* .sort((a, b) => b.lastModified.getTime() - a.lastModified.getTime()):
\* newest first, files of equal time in their readdir order
SortByMtime(entries) ==
    IF entries = <<>> THEN <<>>
    ELSE InsertByMtime(SortByMtime(SubSeq(entries, 1, Len(entries) - 1)),
                       entries[Len(entries)])

\* content.filter((msg) => msg.role === "user" || msg.role === "assistant").length
CountUserAssistant(messages) ==
    Cardinality({i \in 1..Len(messages) :
                    messages[i].role \in {"user", "assistant"}})

RECURSIVE DropNulls(_)
\* .filter(Boolean) over the entries: a null entry has ok = FALSE
DropNulls(entries) ==
    IF entries = <<>> THEN <<>>
    ELSE (IF Head(entries).ok THEN <<Head(entries)>> ELSE <<>>)
         \o DropNulls(Tail(entries))

\* mutant: every file is a candidate, not only the first ten
listConversations_Uncapped(dir) ==
    LET named  == SelectSeq(dir, LAMBDA e : IsConversationFileName(e.fileName))
        sorted == SortByMtime(named)
        top    == sorted
        entry(i) ==
            IF top[i].content = Corrupt
            THEN [ok |-> FALSE]
            ELSE [ok |-> TRUE,
                  id |-> ToDecimal(i),
                  messageCount |-> CountUserAssistant(top[i].content),
                  fileName |-> top[i].fileName,
                  lastModified |-> top[i].mtime]
    IN  DropNulls([i \in 1..Len(top) |-> entry(i)])

\* mutant: one file that fails to parse empties the listing
listConversations_Aborts(dir) ==
    LET named  == SelectSeq(dir, LAMBDA e : IsConversationFileName(e.fileName))
        sorted == SortByMtime(named)
        top    == SubSeq(sorted, 1,
                         IF Len(sorted) < CatalogCap THEN Len(sorted)
                                                     ELSE CatalogCap)
        entry(i) ==
            IF top[i].content = Corrupt
            THEN [ok |-> FALSE]
            ELSE [ok |-> TRUE,
                  id |-> ToDecimal(i),
                  messageCount |-> CountUserAssistant(top[i].content),
                  fileName |-> top[i].fileName,
                  lastModified |-> top[i].mtime]
    IN  IF \E i \in 1..Len(top) : top[i].content = Corrupt
        THEN <<>>
        ELSE DropNulls([i \in 1..Len(top) |-> entry(i)])

\* listConversations: the entries returned for a directory listing
listConversations(dir) ==
    LET named  == SelectSeq(dir, LAMBDA e : IsConversationFileName(e.fileName))
        sorted == SortByMtime(named)
        top    == SubSeq(sorted, 1,
                         IF Len(sorted) < CatalogCap THEN Len(sorted)
                                                     ELSE CatalogCap)
        entry(i) ==
            IF top[i].content = Corrupt
            THEN [ok |-> FALSE]
            ELSE [ok |-> TRUE,
                  id |-> ToDecimal(i),
                  messageCount |-> CountUserAssistant(top[i].content),
                  fileName |-> top[i].fileName,
                  lastModified |-> top[i].mtime]
    IN  DropNulls([i \in 1..Len(top) |-> entry(i)])

\* mutant: the answer is compared as it was typed
selectConversation_NoTrim(conversations, answer) ==
    LET choice == answer
        hits   == {i \in 1..Len(conversations) : conversations[i].id = choice}
    IN  IF choice = <<>> \/ hits = {} THEN <<>>
        ELSE conversations[CHOOSE i \in hits : \A j \in hits : i <= j].fileName

\* selectConversation: the file name of the entry whose id is the trimmed
\* answer, the empty sequence for null
selectConversation(conversations, answer) ==
    LET choice == trim(answer)
        hits   == {i \in 1..Len(conversations) : conversations[i].id = choice}
    IN  IF choice = <<>> \/ hits = {} THEN <<>>
        ELSE conversations[CHOOSE i \in hits : \A j \in hits : i <= j].fileName

\* loadConversation: the parsed content, [] when parsing throws
loadConversation(fs, dir, fileName) ==
    LET path == PathJoin(dir, fileName)
    IN  IF path \in DOMAIN fs /\ fs[path] # Corrupt THEN fs[path] ELSE <<>>

\* ------------------------------------------------------------------------
\* Values the specifications draw from
\* ------------------------------------------------------------------------

\* 2024-01-01T00-00-00-000Z
Ts1 == <<"2", "0", "2", "4", "-", "0", "1", "-", "0", "1", "T", "0", "0", "-",
         "0", "0", "-", "0", "0", "-", "0", "0", "0", "Z">>

\* 2025-06-30T23-59-59-999Z
Ts2 == <<"2", "0", "2", "5", "-", "0", "6", "-", "3", "0", "T", "2", "3", "-",
         "5", "9", "-", "5", "9", "-", "9", "9", "9", "Z">>

\* main: timestamp, new Date().toISOString().replace(/[:.]/g, "-") at the
\* start of the process: 2026-10-29T08-15-30-123Z
timestamp == <<"2", "0", "2", "6", "-", "1", "0", "-", "2", "9", "T", "0", "8",
               "-", "1", "5", "-", "3", "0", "-", "1", "2", "3", "Z">>

ReplaceAt(s, i, c) == [s EXCEPT ![i] = c]

\* the variables of main() while a function is checked on its own
SessionIdleButFiles ==
    /\ pc = "idle"
    /\ clientMessages = <<>>
    /\ knownIds = {}
    /\ messageCount = 0
    /\ isFirstUserInput = TRUE
    /\ isResumedConversation = FALSE
    /\ currentChatTitle = <<>>
    /\ currentFilePath = <<>>
    /\ conversationId = <<>>
    /\ skipNextQuestion = FALSE
    /\ userInput = <<>>
    /\ finalMessages = <<>>
    /\ steps = 0
    /\ selectedConversation = <<>>
    /\ continueAnswer = <<>>
    /\ shutdownLog = <<>>

SessionIdle == SessionIdleButFiles /\ files = <<>> /\ turns = 0

\* ------------------------------------------------------------------------
\* SpecResolve: ensureProperConversationId on its own
\* ------------------------------------------------------------------------

\* candidates: two canonical timestamps, every one-character change of one of
\* them, its proper prefixes, and it with something before or after
ResolveCandidates ==
    {Ts1, Ts2, timestamp}
    \cup {ReplaceAt(Ts1, i, c) : i \in 1..Len(Ts1),
                                 c \in {"7", "-", "x", "T", "Z", "z", " "}}
    \cup {SubSeq(Ts1, 1, k) : k \in 0..(Len(Ts1) - 1)}
    \cup {Ts1 \o e : e \in {<<"\n">>, <<"-">>, <<"0">>, <<"Z">>,
                            <<"-", "o", "l", "d">>, <<" ">>}}
    \cup {e \o Ts1 : e \in {<<" ">>, <<"0">>, <<"\n">>, <<"x", "-">>}}

ResolveFallbacks == {timestamp, Ts2, <<>>, <<"n", "o", "w">>}

InitResolve ==
    /\ SessionIdle
    /\ arg \in [id : ResolveCandidates, fallback : ResolveFallbacks]
    /\ ret = <<>>

ResolveCall ==
    /\ ret = <<>>
    /\ ret' = <<ensureProperConversationId(arg.id, arg.fallback)>>
    /\ UNCHANGED <<arg, sessionVars>>

NextResolve == ResolveCall

SpecResolve == InitResolve /\ [][NextResolve]_vars

\* ------------------------------------------------------------------------
\* SpecShould: shouldUpdateTitle on its own
\* ------------------------------------------------------------------------

MaxCount == 12

MaxInterval == 6

ShouldTitles == {<<>>, <<"A">>, <<"N", "e", "w", " ", "C", "h", "a", "t">>}

InitShould ==
    /\ SessionIdle
    /\ arg \in [mc : 0..MaxCount, interval : 0..MaxInterval,
                isFirst : BOOLEAN, title : ShouldTitles]
    /\ ret = <<>>

ShouldCall ==
    /\ ret = <<>>
    /\ ret' = <<shouldUpdateTitle(arg.mc, arg.interval, arg.isFirst, arg.title)>>
    /\ UNCHANGED <<arg, sessionVars>>

NextShould == ShouldCall

SpecShould == InitShould /\ [][NextShould]_vars

\* ------------------------------------------------------------------------
\* Claims about ensureProperConversationId and shouldUpdateTitle
\* ------------------------------------------------------------------------

\* the canonical format YYYY-MM-DDTHH-mm-ss-sssZ, position by position
CanonicalFormat(s) ==
    /\ Len(s) = 24
    /\ \A i \in {5, 8, 14, 17, 20} : s[i] = "-"
    /\ s[11] = "T"
    /\ s[24] = "Z"
    /\ \A i \in (1..23) \ {5, 8, 11, 14, 17, 20} : s[i] \in Digits

\* C9: resolve returns the candidate when the whole candidate has the
\* canonical timestamp format, whatever the fallback, and the fallback for
\* every other candidate; it has no third outcome.
C9_ResolveTwoOutcomes ==
    ret # <<>> =>
        /\ CanonicalFormat(arg.id) => ret[1] = arg.id
        /\ ~CanonicalFormat(arg.id) => ret[1] = arg.fallback

\* a candidate that starts with a canonical timestamp and goes on after it
\* was replaced by the fallback
C9_Witness ==
    /\ ret # <<>>
    /\ Len(arg.id) > 24
    /\ CanonicalFormat(SubSeq(arg.id, 1, 24))
    /\ arg.fallback = timestamp
    /\ ret[1] = timestamp

\* C10: shouldUpdate is true exactly when messageCount is a positive multiple
\* of titleInterval, it is not the first user input and the title is not
\* empty.
C10_ShouldUpdateIff ==
    ret # <<>> =>
        (ret[1] = TRUE <=>
            /\ arg.mc > 0
            /\ \E k \in 1..MaxCount : arg.mc = k * arg.interval
            /\ arg.isFirst = FALSE
            /\ arg.title # <<>>)

\* the boundary messageCount = titleInterval gives true
C10_Witness ==
    /\ ret = <<TRUE>>
    /\ arg.mc = arg.interval
    /\ arg.mc > 0

\* ------------------------------------------------------------------------
\* SpecMerge: appendFinalMessages on its own, called once and then once more
\* with the same batch and the knownIds the first call left
\* ------------------------------------------------------------------------

MaxMergeHistory == 2

MaxBatch == 2

\* all sequences over the set alphabet of length at most n
RECURSIVE SeqsUpTo(_, _)
SeqsUpTo(alphabet, n) ==
    IF n = 0 THEN {<<>>}
    ELSE LET shorter == SeqsUpTo(alphabet, n - 1)
         IN  shorter \cup {Append(q, a) : q \in shorter, a \in alphabet}

\* the system message a fresh session starts with: it carries a cache hint
SystemMessage == Msg("system", NoId, "prompt", TRUE)

\* messages a history can hold after the system message
MergeHistoryMessages ==
    {Msg("user", NoId, "hi", FALSE),
     Msg("assistant", 1, "reply", TRUE),
     Msg("assistant", 2, "reply", FALSE),
     Msg("tool", 3, "result", FALSE)}

\* messages of a batch, as the model client returns them: without cache hint
MergeBatchMessages ==
    {Msg("assistant", 1, "reply", FALSE),
     Msg("assistant", 4, "reply", FALSE),
     Msg("assistant", NoId, "reply", FALSE),
     Msg("tool", 3, "result", FALSE),
     Msg("tool", 4, "result", FALSE),
     Msg("user", 4, "hi", FALSE),
     Msg("system", NoId, "prompt", FALSE)}

IdsOf(history) == {history[i].id : i \in 1..Len(history)} \ {NoId}

InitMerge ==
    /\ SessionIdle
    /\ \E h \in {<<SystemMessage>> \o q :
                    q \in SeqsUpTo(MergeHistoryMessages, MaxMergeHistory)},
          b \in SeqsUpTo(MergeBatchMessages, MaxBatch),
          c \in BOOLEAN :
          \E k \in SUBSET IdsOf(h) :
              arg = [history |-> h, incoming |-> b, knownIds |-> k, cache |-> c]
    /\ ret = <<>>

MergeOnce ==
    /\ ret = <<>>
    /\ ret' = <<appendFinalMessages(arg.history, arg.incoming, arg.knownIds,
                                    arg.cache)>>
    /\ UNCHANGED <<arg, sessionVars>>

\* The second call gets the same batch. The first call set the hint on the
\* batch's last message object if it appended it; that object is then in the
\* history and its id in knownIds, so the second call's loop skips it
\* whatever its hint.
MergeAgain ==
    /\ Len(ret) = 1
    /\ ret' = Append(ret, appendFinalMessages(ret[1].history, arg.incoming,
                                               ret[1].knownIds, arg.cache))
    /\ UNCHANGED <<arg, sessionVars>>

NextMerge == MergeOnce \/ MergeAgain

SpecMerge == InitMerge /\ [][NextMerge]_vars

\* ------------------------------------------------------------------------
\* Claims about appendFinalMessages
\* ------------------------------------------------------------------------

\* C1: merging the same batch a second time, with the knownIds of the first
\* merge, leaves the history as the first merge left it: same messages, same
\* order, same cache hints, for rotateCacheHint true and false.
C1_MergeIdempotent ==
    Len(ret) = 2 => ret[2].history = ret[1].history

\* C1, as far as the code goes: the second merge changes nothing but cache
\* hints, and nothing at all when rotateCacheHint is false.
C1_SecondMergeChangesOnlyHints ==
    Len(ret) = 2 =>
        /\ Len(ret[2].history) = Len(ret[1].history)
        /\ \A i \in 1..Len(ret[1].history) :
              [ret[2].history[i] EXCEPT !.hint = FALSE]
                  = [ret[1].history[i] EXCEPT !.hint = FALSE]
        /\ ret[2].knownIds = ret[1].knownIds
        /\ ~arg.cache => ret[2].history = ret[1].history

EraseHints(history) ==
    [i \in 1..Len(history) |-> [history[i] EXCEPT !.hint = FALSE]]

\* the i-th message of batch is one the claim says is appended
KeptIndex(batch, known, i) ==
    /\ batch[i].role \in {"assistant", "tool"}
    /\ batch[i].id # NoId
    /\ batch[i].id \notin known
    /\ ~\E j \in 1..(i - 1) :
          /\ batch[j].role \in {"assistant", "tool"}
          /\ batch[j].id = batch[i].id

RECURSIVE ReferenceSubsequence(_, _, _)
ReferenceSubsequence(batch, known, i) ==
    IF i > Len(batch) THEN <<>>
    ELSE (IF KeptIndex(batch, known, i) THEN <<batch[i]>> ELSE <<>>)
         \o ReferenceSubsequence(batch, known, i + 1)

\* C4: after a merge the history is the old history followed, in batch order,
\* by the assistant and tool messages of the batch that carry an id not known
\* when they are reached (messages compared by role, id and content), and
\* knownIds is the old knownIds plus the ids of the appended messages.
C4_MergeAppendsReference ==
    Len(ret) >= 1 =>
        LET kept == ReferenceSubsequence(arg.incoming, arg.knownIds, 1)
        IN  /\ EraseHints(ret[1].history) = EraseHints(arg.history \o kept)
            /\ ret[1].knownIds = arg.knownIds \cup IdsOf(kept)
            /\ \A i \in 1..Len(kept) : kept[i].role \notin {"user", "system"}

\* a batch whose two messages carry the same new id: only the first is
\* appended
C4_Witness ==
    /\ Len(ret) >= 1
    /\ Len(arg.incoming) = 2
    /\ arg.incoming[1].role = "assistant"
    /\ arg.incoming[2].role = "tool"
    /\ arg.incoming[1].id = arg.incoming[2].id
    /\ arg.incoming[1].id \notin arg.knownIds
    /\ Len(ret[1].history) = Len(arg.history) + 1

\* ------------------------------------------------------------------------
\* SpecRename: a sequence of updateConversationFile calls on a directory
\* ------------------------------------------------------------------------

MaxRenames == 2

MaxFiles == 2

\* titles: the empty title and two titles that clean to the same slug
RenameTitles ==
    {<<>>, <<"A", "b", " ", "c">>, <<"a", "b", "\r", " ", "C", "?">>}

RenameIds == {Ts1, Ts2}

\* the paths of the calls: every path a title gives, and a file whose name
\* has no timestamp
RenamePaths ==
    {getConversationFileName(logDir, i, t) : i \in RenameIds, t \in RenameTitles}
    \cup {PathJoin(logDir, FileNameOf(<<"o", "l", "d">>))}

\* the content of the file that starts at path p
ContentAt(p) == <<"content of", p>>

InitRename ==
    /\ SessionIdleButFiles
    /\ turns = 0
    /\ \E d \in SUBSET RenamePaths :
          /\ Cardinality(d) <= MaxFiles
          /\ files = [p \in d |-> ContentAt(p)]
    /\ arg = files
    /\ ret = <<>>

\* one call; ret keeps the call and the directory before it
RenameCall(old, id, title, ioError) ==
    /\ turns < MaxRenames
    /\ turns' = turns + 1
    /\ LET r == updateConversationFile(files, logDir, old, id, title, ioError)
       IN  /\ files' = r.files
           /\ ret' = <<[old |-> old, id |-> id, title |-> title,
                        ioError |-> ioError, before |-> files,
                        path |-> r.path]>>
    /\ UNCHANGED <<arg, pc, clientMessages, knownIds, messageCount,
                   isFirstUserInput, isResumedConversation, currentChatTitle,
                   currentFilePath, conversationId, skipNextQuestion,
                   userInput, finalMessages, steps, selectedConversation,
                   continueAnswer, shutdownLog>>

NextRename ==
    \E old \in RenamePaths, id \in RenameIds, title \in RenameTitles,
       ioError \in BOOLEAN : RenameCall(old, id, title, ioError)

SpecRename == InitRename /\ [][NextRename]_vars

\* ------------------------------------------------------------------------
\* Claims about updateConversationFile
\* ------------------------------------------------------------------------

\* C5: a rename whose destination exists changes no file and returns the old
\* path, and over any sequence of renames every content the directory started
\* with is still there under some path.
C5_RenameLosesNothing ==
    /\ \A p0 \in DOMAIN arg : \E p \in DOMAIN files : files[p] = arg[p0]
    /\ ret # <<>> =>
          LET c == ret[1]
              newPath == getConversationFileName(logDir, c.id, c.title)
          IN  newPath \in DOMAIN c.before =>
                  /\ files = c.before
                  /\ c.path = c.old

\* a rename from an existing file towards another existing file was refused
C5_Witness ==
    /\ ret # <<>>
    /\ LET c == ret[1]
           newPath == getConversationFileName(logDir, c.id, c.title)
       IN  /\ newPath \in DOMAIN c.before
           /\ c.old \in DOMAIN c.before
           /\ newPath # c.old
           /\ ~c.ioError
           /\ c.path = c.old
           /\ files[newPath] # files[c.old]

\* C6: rename returns the old path and leaves the directory as it is when
\* the new path equals the old path, or the old path has no file, or the new
\* path has one; in the remaining case (the file-system rename not failing)
\* the file is moved: nothing is left at the old path, its content is at the
\* new path, every other file is as before, and the new path is returned.
C6_RenameCases ==
    ret # <<>> =>
        LET c == ret[1]
            newPath == getConversationFileName(logDir, c.id, c.title)
            refused == \/ newPath = c.old
                       \/ c.old \notin DOMAIN c.before
                       \/ newPath \in DOMAIN c.before
        IN  /\ refused => c.path = c.old /\ files = c.before
            /\ (~refused /\ ~c.ioError) =>
                  /\ c.path = newPath
                  /\ c.old \notin DOMAIN files
                  /\ newPath \in DOMAIN files
                  /\ files[newPath] = c.before[c.old]
                  /\ DOMAIN files = (DOMAIN c.before \ {c.old}) \cup {newPath}
                  /\ \A p \in DOMAIN c.before \ {c.old} : files[p] = c.before[p]

\* a rename moved a file
C6_Witness ==
    /\ ret # <<>>
    /\ ret[1].path # ret[1].old
    /\ ret[1].old \notin DOMAIN files
    /\ ret[1].path \in DOMAIN files

\* ------------------------------------------------------------------------
\* Spec: main(), from the choice of a conversation to the final save
\* ------------------------------------------------------------------------

\* getMaxSteps(): DEFAULT_CONFIG.agent.maxSteps
MAX_STEPS == 5

\* getTitleUpdateInterval(): DEFAULT_CONFIG.conversation.titleUpdateInterval
titleInterval == 5

\* turns a session may start
MaxTurns == 2

\* the number of steps of a model call: below the limit, and the limit
StepCounts == {MAX_STEPS - 1, MAX_STEPS}

\* "continue"
ContinueInput == <<"c", "o", "n", "t", "i", "n", "u", "e">>

ExitInput == <<"e", "x", "i", "t">>

SaveInput == <<"s", "a", "v", "e">>

HistoryInput == <<"h", "i", "s", "t", "o", "r", "y">>

\* the lines the user types at the prompt: a message, an empty line, exit, and
\* the special commands, one of them in upper case
UserInputs ==
    {<<"h", "i">>, <<>>, ExitInput, HistoryInput, <<"S", "A", "V", "E">>}

\* the titles generateChatSummary returns: words in title case
TitleA == <<"A", "b", " ", "C">>

TitleX == <<"X">>

SummaryTitles == {TitleA, TitleX}

\* the outcome of a generateChatSummary call that throws
SummaryThrows == <<"throws">>

\* the outcomes of a generateChatSummary call
SummaryOutcomes == SummaryTitles \cup {SummaryThrows}

UserMessage(content) == Msg("user", NoId, content, FALSE)

\* histories earlier sessions left in the directory
HistoryOf2 ==
    <<SystemMessage, UserMessage(<<"h", "i">>), Msg("assistant", 1, "reply", TRUE)>>

HistoryOf3 ==
    <<SystemMessage, UserMessage(<<"h", "i">>),
      Msg("assistant", 1, "reply", FALSE), Msg("tool", 2, "result", FALSE),
      Msg("assistant", 3, "reply", TRUE)>>

HistoryOf4 ==
    <<SystemMessage, UserMessage(<<"h", "i">>),
      Msg("assistant", 1, "reply", FALSE), UserMessage(<<"h", "i">>),
      Msg("assistant", 2, "reply", TRUE)>>

DirEntry(middle, mtime, content) ==
    [fileName |-> FileNameOf(middle), mtime |-> mtime, content |-> content]

\* the directories a session starts in: empty; one titled conversation; one
\* untitled conversation; a file whose name holds no timestamp; a titled
\* conversation beside a file that has the name another title gives it; an
\* unreadable file that is newer than a conversation
StartDirectories ==
    {<<>>,
     <<DirEntry(Ts1 \o <<"-", "a", "b", "_", "c">>, 2, HistoryOf4)>>,
     <<DirEntry(Ts2, 3, HistoryOf3)>>,
     <<DirEntry(<<"o", "l", "d">>, 1, HistoryOf2)>>,
     <<DirEntry(Ts1 \o <<"-", "x">>, 1, HistoryOf2),
       DirEntry(Ts1 \o <<"-", "a", "b", "_", "c">>, 2, HistoryOf4)>>,
     <<DirEntry(Ts1, 5, Corrupt), DirEntry(Ts2, 4, <<SystemMessage>>)>>}

\* what the user answers to "Your choice: "
SelectAnswers == {<<>>, <<"1">>, <<" ", "2">>, <<"x">>}

\* the file system holding the files of a directory listing
FilesOf(dir) ==
    [p \in {PathJoin(logDir, dir[i].fileName) : i \in 1..Len(dir)} |->
        LET i == CHOOSE k \in 1..Len(dir) : PathJoin(logDir, dir[k].fileName) = p
        IN  dir[i].content]

\* arg holds the directory listing the process finds when it starts
Init ==
    /\ pc = "select"
    /\ arg \in StartDirectories
    /\ files = FilesOf(arg)
    /\ clientMessages = <<>>
    /\ knownIds = {}
    /\ messageCount = 0
    /\ isFirstUserInput = TRUE
    /\ isResumedConversation = FALSE
    /\ currentChatTitle = <<>>
    /\ currentFilePath = <<>>
    /\ conversationId = <<>>
    /\ skipNextQuestion = FALSE
    /\ userInput = <<>>
    /\ finalMessages = <<>>
    /\ steps = 0
    /\ turns = 0
    /\ selectedConversation = <<>>
    /\ continueAnswer = <<>>
    /\ shutdownLog = <<>>
    /\ ret = <<>>

\* mutant: a title is generated whether or not the file name holds one
Resume_Generates(selected, fixError) ==
    LET loaded      == loadConversation(files, logDir, selected)
        extractedId == MiddleOf(selected)
        candidateId == IF StartsWithTimestamp(extractedId)
                       THEN SubSeq(extractedId, 1, Len(timestampPattern))
                       ELSE extractedId
        id          == ensureProperConversationId(candidateId, timestamp)
        fixed       == IF candidateId # id
                       THEN fixMalformedFilename(files, logDir, selected, id,
                                                 <<>>, fixError)
                       ELSE [path |-> PathJoin(logDir, selected),
                             files |-> files]
        title       == extractTitleFromFileName(selected)
        generate    == Len(loaded) > 1
    IN  /\ clientMessages' = loaded
        /\ conversationId' = id
        /\ isResumedConversation' = TRUE
        /\ currentChatTitle' = title
        /\ currentFilePath' = fixed.path
        /\ files' = fixed.files
        /\ IF generate
           THEN /\ pc' = "resumeTitle"
                /\ UNCHANGED <<messageCount, isFirstUserInput>>
           ELSE /\ pc' = "ask"
                /\ messageCount' = CountUserAssistant(loaded)
                /\ isFirstUserInput' = FALSE

\* main, lines 98-140 and, when no title is to be generated, lines 156-203:
\* the user picked selected; fixError says that the rename of
\* fixMalformedFilename throws. When the file name holds no title and the
\* history has more than one message, main waits for the summarizer at line
\* 140 with messageCount and isFirstUserInput not yet assigned.
Resume(selected, fixError) ==
    LET loaded      == loadConversation(files, logDir, selected)
        extractedId == MiddleOf(selected)
        candidateId == IF StartsWithTimestamp(extractedId)
                       THEN SubSeq(extractedId, 1, Len(timestampPattern))
                       ELSE extractedId
        id          == ensureProperConversationId(candidateId, timestamp)
        fixed       == IF candidateId # id
                       THEN fixMalformedFilename(files, logDir, selected, id,
                                                 <<>>, fixError)
                       ELSE [path |-> PathJoin(logDir, selected),
                             files |-> files]
        title       == extractTitleFromFileName(selected)
        generate    == title = <<>> /\ Len(loaded) > 1
    IN  /\ clientMessages' = loaded
        /\ conversationId' = id
        /\ isResumedConversation' = TRUE
        /\ currentChatTitle' = title
        /\ currentFilePath' = fixed.path
        /\ files' = fixed.files
        /\ IF generate
           THEN /\ pc' = "resumeTitle"
                /\ UNCHANGED <<messageCount, isFirstUserInput>>
           ELSE /\ pc' = "ask"
                /\ messageCount' = CountUserAssistant(loaded)
                /\ isFirstUserInput' = FALSE

\* main, lines 180-195 and 197-203
StartFresh ==
    /\ conversationId' = timestamp
    /\ currentFilePath' = getConversationFileName(logDir, timestamp, <<>>)
    /\ clientMessages' = <<SystemMessage>>
    /\ isFirstUserInput' = TRUE
    /\ pc' = "ask"
    /\ UNCHANGED <<isResumedConversation, currentChatTitle, files, messageCount>>

\* main, lines 95-203 up to the wait for the summarizer of line 140, started
\* in the directory dir
SelectIn(dir, answer, fixError) ==
    /\ pc = "select"
    /\ LET selected == selectConversation(listConversations(dir), answer)
       IN  IF selected # <<>>
           THEN Resume(selected, fixError)
           ELSE StartFresh
    /\ selectedConversation' =
          selectConversation(listConversations(dir), answer)
    /\ knownIds' = {}
    /\ skipNextQuestion' = FALSE
    /\ UNCHANGED <<userInput, finalMessages, steps, turns, arg, ret,
                   continueAnswer, shutdownLog>>

\* main, lines 95-203: arg is the directory
Select(answer, fixError) == SelectIn(arg, answer, fixError)

\* main, lines 140-203: the summarizer called for the title of a resumed
\* conversation resolves with summary or throws; ioError says that the
\* rename of updateConversationFile throws
ResumeTitle(summary, ioError) ==
    /\ pc = "resumeTitle"
    /\ pc' = "ask"
    /\ LET updated == IF summary # SummaryThrows
                      THEN updateConversationFile(files, logDir,
                                                  currentFilePath,
                                                  conversationId, summary,
                                                  ioError)
                      ELSE [path |-> currentFilePath, files |-> files]
       IN  /\ currentChatTitle' = (IF summary = SummaryThrows THEN <<>>
                                   ELSE summary)
           /\ currentFilePath' = updated.path
           /\ files' = updated.files
    /\ messageCount' = CountUserAssistant(clientMessages)
    /\ isFirstUserInput' = FALSE
    /\ UNCHANGED <<clientMessages, knownIds, isResumedConversation,
                   conversationId, skipNextQuestion, userInput, finalMessages,
                   steps, turns, arg, ret, selectedConversation,
                   continueAnswer, shutdownLog>>

\* mutant: skipNextQuestion is not reset when the forced input is taken
ReadInputWithin_KeepsSkip(line, maxTurns) ==
    /\ pc = "ask"
    /\ LET input   == IF skipNextQuestion THEN ContinueInput ELSE line
           command == toLowerCase(input)
       IN  /\ skipNextQuestion' = skipNextQuestion
           /\ steps' = 0
           /\ IF command = ExitInput
              THEN /\ pc' = "finally"
                   /\ userInput' = input
                   /\ UNCHANGED <<files, clientMessages, messageCount, turns>>
              ELSE IF command = SaveInput
              THEN /\ pc' = "ask"
                   /\ userInput' = input
                   /\ files' = writeFileSync(files, currentFilePath,
                                             clientMessages)
                   /\ UNCHANGED <<clientMessages, messageCount, turns>>
              ELSE IF command = HistoryInput
              THEN /\ pc' = "ask"
                   /\ userInput' = input
                   /\ UNCHANGED <<files, clientMessages, messageCount, turns>>
              ELSE /\ turns < maxTurns
                   /\ turns' = turns + 1
                   /\ pc' = (IF isFirstUserInput THEN "initialTitle"
                                                 ELSE "check1")
                   /\ userInput' = input
                   /\ clientMessages' = Append(clientMessages, UserMessage(input))
                   /\ messageCount' = messageCount + 1
                   /\ UNCHANGED files
    /\ continueAnswer' = <<>>
    /\ UNCHANGED shutdownLog
    /\ UNCHANGED <<knownIds, isFirstUserInput, isResumedConversation,
                   currentChatTitle, currentFilePath, conversationId,
                   finalMessages, arg, ret, selectedConversation>>

\* mutant: the special commands are recognised in lower case only
ReadInputWithin_CaseSensitive(line, maxTurns) ==
    /\ pc = "ask"
    /\ LET input   == IF skipNextQuestion THEN ContinueInput ELSE line
           command == toLowerCase(input)
       IN  /\ skipNextQuestion' = FALSE
           /\ steps' = 0
           /\ IF command = ExitInput
              THEN /\ pc' = "finally"
                   /\ userInput' = input
                   /\ UNCHANGED <<files, clientMessages, messageCount, turns>>
              ELSE IF input = SaveInput
              THEN /\ pc' = "ask"
                   /\ userInput' = input
                   /\ files' = writeFileSync(files, currentFilePath,
                                             clientMessages)
                   /\ UNCHANGED <<clientMessages, messageCount, turns>>
              ELSE IF input = HistoryInput
              THEN /\ pc' = "ask"
                   /\ userInput' = input
                   /\ UNCHANGED <<files, clientMessages, messageCount, turns>>
              ELSE /\ turns < maxTurns
                   /\ turns' = turns + 1
                   /\ pc' = (IF isFirstUserInput THEN "initialTitle"
                                                 ELSE "check1")
                   /\ userInput' = input
                   /\ clientMessages' = Append(clientMessages, UserMessage(input))
                   /\ messageCount' = messageCount + 1
                   /\ UNCHANGED files
    /\ continueAnswer' = <<>>
    /\ UNCHANGED shutdownLog
    /\ UNCHANGED <<knownIds, isFirstUserInput, isResumedConversation,
                   currentChatTitle, currentFilePath, conversationId,
                   finalMessages, arg, ret, selectedConversation>>

\* main, lines 207-238: one pass from the top of the loop to the user
\* message. userInput is written here before anything reads it, so the model
\* keeps it only while the pass it belongs to goes on; continueAnswer is not
\* read after the gate's decision. A turn starts only while fewer than
\* maxTurns turns were started.
ReadInputWithin(line, maxTurns) ==
    /\ pc = "ask"
    /\ LET input   == IF skipNextQuestion THEN ContinueInput ELSE line
           command == toLowerCase(input)
       IN  /\ skipNextQuestion' = FALSE
           /\ steps' = 0
           /\ IF command = ExitInput
              THEN /\ pc' = "finally"
                   /\ userInput' = input
                   /\ UNCHANGED <<files, clientMessages, messageCount, turns>>
              ELSE IF command = SaveInput
              THEN /\ pc' = "ask"
                   /\ userInput' = input
                   /\ files' = writeFileSync(files, currentFilePath,
                                             clientMessages)
                   /\ UNCHANGED <<clientMessages, messageCount, turns>>
              ELSE IF command = HistoryInput
              THEN /\ pc' = "ask"
                   /\ userInput' = input
                   /\ UNCHANGED <<files, clientMessages, messageCount, turns>>
              ELSE /\ turns < maxTurns
                   /\ turns' = turns + 1
                   /\ pc' = (IF isFirstUserInput THEN "initialTitle"
                                                 ELSE "check1")
                   /\ userInput' = input
                   /\ clientMessages' = Append(clientMessages, UserMessage(input))
                   /\ messageCount' = messageCount + 1
                   /\ UNCHANGED files
    /\ continueAnswer' = <<>>
    /\ UNCHANGED shutdownLog
    /\ UNCHANGED <<knownIds, isFirstUserInput, isResumedConversation,
                   currentChatTitle, currentFilePath, conversationId,
                   finalMessages, arg, ret, selectedConversation>>

ReadInput(line) == ReadInputWithin(line, MaxTurns)

\* generateInitialTitle: the title, the path and the file system afterwards
generateInitialTitle(fs, input, path, id, summary, ioError) ==
    IF input = ContinueInput \/ trim(input) = <<>>
    THEN [title |-> <<>>, updatedFilePath |-> path, files |-> fs]
    ELSE IF summary = SummaryThrows
    THEN [title |-> <<>>, updatedFilePath |-> path, files |-> fs]
    ELSE LET r == updateConversationFile(fs, logDir, path, id, summary, ioError)
         IN  [title |-> summary, updatedFilePath |-> r.path, files |-> r.files]

\* mutant: a throw of the summarizer clears the title
updateConversationTitle_ThrowClears(fs, title, path, id, newTitle, ioError) ==
    IF newTitle = SummaryThrows
    THEN [title |-> <<>>, updatedFilePath |-> path, files |-> fs]
    ELSE IF newTitle # title /\ trim(newTitle) # <<>>
    THEN LET r == updateConversationFile(fs, logDir, path, id, newTitle, ioError)
         IN  [title |-> newTitle, updatedFilePath |-> r.path, files |-> r.files]
    ELSE [title |-> title, updatedFilePath |-> path, files |-> fs]

\* mutant: without the test that the returned title is not blank
updateConversationTitle_NoBlankTest(fs, title, path, id, newTitle, ioError) ==
    IF newTitle = SummaryThrows
    THEN [title |-> title, updatedFilePath |-> path, files |-> fs]
    ELSE IF newTitle # title
    THEN LET r == updateConversationFile(fs, logDir, path, id, newTitle, ioError)
         IN  [title |-> newTitle, updatedFilePath |-> r.path, files |-> r.files]
    ELSE [title |-> title, updatedFilePath |-> path, files |-> fs]

\* updateConversationTitle, in the same form
updateConversationTitle(fs, title, path, id, newTitle, ioError) ==
    IF newTitle = SummaryThrows
    THEN [title |-> title, updatedFilePath |-> path, files |-> fs]
    ELSE IF newTitle # title /\ trim(newTitle) # <<>>
    THEN LET r == updateConversationFile(fs, logDir, path, id, newTitle, ioError)
         IN  [title |-> newTitle, updatedFilePath |-> r.path, files |-> r.files]
    ELSE [title |-> title, updatedFilePath |-> path, files |-> fs]

\* mutant: a throw of the summarizer reaches the loop
InitialTitle_Rethrows(summary, ioError) ==
    /\ pc = "initialTitle"
    /\ pc' = (IF summary = SummaryThrows THEN "finally" ELSE "check1")
    /\ LET r == generateInitialTitle(files, userInput, currentFilePath,
                                     conversationId, summary, ioError)
       IN  /\ currentChatTitle' = r.title
           /\ currentFilePath' = r.updatedFilePath
           /\ files' = r.files
    /\ isFirstUserInput' = FALSE
    /\ UNCHANGED <<clientMessages, knownIds, messageCount,
                   isResumedConversation, conversationId, skipNextQuestion,
                   userInput, finalMessages, steps, turns, arg, ret,
                   selectedConversation, continueAnswer, shutdownLog>>

\* main, lines 240-254
InitialTitle(summary, ioError) ==
    /\ pc = "initialTitle"
    /\ pc' = "check1"
    /\ LET r == generateInitialTitle(files, userInput, currentFilePath,
                                     conversationId, summary, ioError)
       IN  /\ currentChatTitle' = r.title
           /\ currentFilePath' = r.updatedFilePath
           /\ files' = r.files
    /\ isFirstUserInput' = FALSE
    /\ UNCHANGED <<clientMessages, knownIds, messageCount,
                   isResumedConversation, conversationId, skipNextQuestion,
                   userInput, finalMessages, steps, turns, arg, ret,
                   selectedConversation, continueAnswer, shutdownLog>>

\* the condition of the title checks of main, lines 257-264 and 307-314
TitleDue ==
    shouldUpdateTitle(messageCount, titleInterval, isFirstUserInput,
                      currentChatTitle)

\* mutant: the title checks rename with the start timestamp as id
TitleUpdate_StartId(summary, ioError) ==
    LET r == updateConversationTitle(files, currentChatTitle, currentFilePath,
                                     timestamp, summary, ioError)
    IN  /\ currentChatTitle' = r.title
        /\ currentFilePath' = r.updatedFilePath
        /\ files' = r.files

\* the body of the title checks of main, lines 265-275 and 315-325
TitleUpdate(summary, ioError) ==
    LET r == updateConversationTitle(files, currentChatTitle, currentFilePath,
                                     conversationId, summary, ioError)
    IN  /\ currentChatTitle' = r.title
        /\ currentFilePath' = r.updatedFilePath
        /\ files' = r.files

\* main, lines 256-276, when the title is due
Check1Update(summary, ioError) ==
    /\ pc = "check1"
    /\ TitleDue
    /\ pc' = "stream"
    /\ TitleUpdate(summary, ioError)
    /\ UNCHANGED <<clientMessages, knownIds, messageCount, isFirstUserInput,
                   isResumedConversation, conversationId, skipNextQuestion,
                   userInput, finalMessages, steps, turns, arg, ret,
                   selectedConversation, continueAnswer, shutdownLog>>

\* main, lines 256-264, when it is not
Check1Skip ==
    /\ pc = "check1"
    /\ ~TitleDue
    /\ pc' = "stream"
    /\ UNCHANGED <<files, clientMessages, knownIds, messageCount,
                   isFirstUserInput, isResumedConversation, currentChatTitle,
                   currentFilePath, conversationId, skipNextQuestion,
                   userInput, finalMessages, steps, turns, arg, ret,
                   selectedConversation, continueAnswer, shutdownLog>>

\* the id the model client gives the k-th message of turn t
FreshId(t, k) == 10 * t + k

\* the last assistant message of history that carries an id, as a batch
RECURSIVE LastIdentified(_)
LastIdentified(history) ==
    IF history = <<>> THEN <<>>
    ELSE LET m == history[Len(history)]
         IN  IF m.role = "assistant" /\ m.id # NoId
             THEN <<[m EXCEPT !.hint = FALSE]>>
             ELSE LastIdentified(SubSeq(history, 1, Len(history) - 1))

\* response.messages of turn t: one reply; a reply and a tool result; a tool
\* round trip with two assistant messages; a reply without id; the last
\* assistant message of the history again
ModelBatches(t, history) ==
    {<<Msg("assistant", FreshId(t, 1), "reply", FALSE)>>,
     <<Msg("assistant", FreshId(t, 1), "reply", FALSE),
       Msg("tool", FreshId(t, 2), "result", FALSE)>>,
     <<Msg("assistant", FreshId(t, 1), "reply", FALSE),
       Msg("tool", FreshId(t, 2), "result", FALSE),
       Msg("assistant", FreshId(t, 3), "reply", FALSE)>>,
     <<Msg("assistant", NoId, "reply", FALSE)>>,
     LastIdentified(history)}

\* main, lines 278-304: the model call resolves with batch after stepCount
\* steps; finalMessages holds the objects the merge pushed and hinted
Stream(batch, stepCount) ==
    /\ pc = "stream"
    /\ pc' = "check2"
    /\ finalMessages' = finalMessagesAfter(batch, knownIds, TRUE)
    /\ steps' = stepCount
    /\ LET r == appendFinalMessages(clientMessages, batch, knownIds, TRUE)
       IN  /\ clientMessages' = r.history
           /\ knownIds' = r.knownIds
    /\ messageCount' = messageCount
          + Cardinality({i \in 1..Len(batch) : batch[i].role = "assistant"})
    /\ UNCHANGED <<files, isFirstUserInput, isResumedConversation,
                   currentChatTitle, currentFilePath, conversationId,
                   skipNextQuestion, userInput, turns, arg, ret,
                   selectedConversation, continueAnswer, shutdownLog>>

\* mutant: after a rejected model call the loop asks for the next input
StreamRejects_AsksAgain ==
    /\ pc = "stream"
    /\ pc' = "ask"
    /\ UNCHANGED <<files, clientMessages, knownIds, messageCount,
                   isFirstUserInput, isResumedConversation, currentChatTitle,
                   currentFilePath, conversationId, skipNextQuestion,
                   userInput, finalMessages, steps, turns, arg, ret,
                   selectedConversation, continueAnswer, shutdownLog>>

\* main, lines 280-295 and 358-361: the model call or its stream rejects
StreamRejects ==
    /\ pc = "stream"
    /\ pc' = "finally"
    /\ UNCHANGED <<files, clientMessages, knownIds, messageCount,
                   isFirstUserInput, isResumedConversation, currentChatTitle,
                   currentFilePath, conversationId, skipNextQuestion,
                   userInput, finalMessages, steps, turns, arg, ret,
                   selectedConversation, continueAnswer, shutdownLog>>

\* main, lines 306-326, when the title is due
Check2Update(summary, ioError) ==
    /\ pc = "check2"
    /\ TitleDue
    /\ pc' = "save"
    /\ TitleUpdate(summary, ioError)
    /\ UNCHANGED <<clientMessages, knownIds, messageCount, isFirstUserInput,
                   isResumedConversation, conversationId, skipNextQuestion,
                   userInput, finalMessages, steps, turns, arg, ret,
                   selectedConversation, continueAnswer, shutdownLog>>

\* main, lines 306-314, when it is not
Check2Skip ==
    /\ pc = "check2"
    /\ ~TitleDue
    /\ pc' = "save"
    /\ UNCHANGED <<files, clientMessages, knownIds, messageCount,
                   isFirstUserInput, isResumedConversation, currentChatTitle,
                   currentFilePath, conversationId, skipNextQuestion,
                   userInput, finalMessages, steps, turns, arg, ret,
                   selectedConversation, continueAnswer, shutdownLog>>

\* mutant: the turn ends without its rewrite
Save_NoWrite ==
    /\ pc = "save"
    /\ files' = files
    /\ pc' = (IF steps >= MAX_STEPS THEN "gate" ELSE "ask")
    /\ UNCHANGED <<clientMessages, knownIds, messageCount, isFirstUserInput,
                   isResumedConversation, currentChatTitle, currentFilePath,
                   conversationId, skipNextQuestion, userInput, finalMessages,
                   steps, turns, arg, ret, selectedConversation,
                   continueAnswer, shutdownLog>>

\* mutant: the rewrite of the turn goes to the untitled name of the id
Save_UntitledName ==
    /\ pc = "save"
    /\ files' = writeFileSync(files,
                              getConversationFileName(logDir, conversationId,
                                                      <<>>),
                              clientMessages)
    /\ pc' = (IF steps >= MAX_STEPS THEN "gate" ELSE "ask")
    /\ UNCHANGED <<clientMessages, knownIds, messageCount, isFirstUserInput,
                   isResumedConversation, currentChatTitle, currentFilePath,
                   conversationId, skipNextQuestion, userInput, finalMessages,
                   steps, turns, arg, ret, selectedConversation,
                   continueAnswer, shutdownLog>>

\* main, lines 328-338 and 352-357: the rewrite of the turn, then the gate
\* or the next pass of the loop. userInput (the let of line 199) keeps the
\* input of the pass, and the batch of the pass is not assigned either.
Save ==
    /\ pc = "save"
    /\ files' = writeFileSync(files, currentFilePath, clientMessages)
    /\ pc' = (IF steps >= MAX_STEPS THEN "gate" ELSE "ask")
    /\ UNCHANGED <<clientMessages, knownIds, messageCount, isFirstUserInput,
                   isResumedConversation, currentChatTitle, currentFilePath,
                   conversationId, skipNextQuestion, userInput, finalMessages,
                   steps, turns, arg, ret, selectedConversation,
                   continueAnswer, shutdownLog>>

\* what the user answers at the continuation gate
GateAnswers == {<<"y">>, <<"Y", "E", "S">>, <<"n">>, <<>>}

\* continueAnswer when askContinueQuestion rejects: no answer was read
ReadError == <<"read error">>

\* mutant: every answer but "n" continues
Gate_StopsOnlyOnNo(answer, readError) ==
    /\ pc = "gate"
    /\ LET shouldContinue ==
              /\ ~readError
              /\ toLowerCase(trim(answer)) # <<"n">>
       IN  /\ skipNextQuestion' = shouldContinue
           /\ pc' = (IF shouldContinue THEN "ask" ELSE "finally")
    /\ continueAnswer' = (IF readError THEN ReadError ELSE trim(answer))
    /\ UNCHANGED shutdownLog
    /\ UNCHANGED <<files, clientMessages, knownIds, messageCount,
                   isFirstUserInput, isResumedConversation, currentChatTitle,
                   currentFilePath, conversationId, userInput, finalMessages,
                   steps, turns, arg, ret, selectedConversation>>

\* mutant: a refused continuation asks again
Gate_AsksAgain(answer, readError) ==
    /\ pc = "gate"
    /\ LET shouldContinue ==
              /\ ~readError
              /\ toLowerCase(trim(answer)) \in {<<"y">>, <<"y", "e", "s">>}
       IN  /\ skipNextQuestion' = shouldContinue
           /\ pc' = (IF shouldContinue THEN "ask" ELSE "gate")
    /\ continueAnswer' = (IF readError THEN ReadError ELSE trim(answer))
    /\ UNCHANGED shutdownLog
    /\ UNCHANGED <<files, clientMessages, knownIds, messageCount,
                   isFirstUserInput, isResumedConversation, currentChatTitle,
                   currentFilePath, conversationId, userInput, finalMessages,
                   steps, turns, arg, ret, selectedConversation>>

\* handleMaxStepsContinuation and main, lines 339-350; readError says that
\* askContinueQuestion rejects
Gate(answer, readError) ==
    /\ pc = "gate"
    /\ LET shouldContinue ==
              /\ ~readError
              /\ toLowerCase(trim(answer)) \in {<<"y">>, <<"y", "e", "s">>}
       IN  /\ skipNextQuestion' = shouldContinue
           /\ pc' = (IF shouldContinue THEN "ask" ELSE "finally")
    /\ continueAnswer' = (IF readError THEN ReadError ELSE trim(answer))
    /\ UNCHANGED shutdownLog
    /\ UNCHANGED <<files, clientMessages, knownIds, messageCount,
                   isFirstUserInput, isResumedConversation, currentChatTitle,
                   currentFilePath, conversationId, userInput, finalMessages,
                   steps, turns, arg, ret, selectedConversation>>

\* mutant: the session ends without the final save
Finally_NoWrite ==
    /\ pc = "finally"
    /\ pc' = "terminated"
    /\ files' = files
    /\ continueAnswer' = <<>>
    /\ shutdownLog' = <<"release">>
    /\ UNCHANGED <<clientMessages, knownIds, messageCount, isFirstUserInput,
                   isResumedConversation, currentChatTitle, currentFilePath,
                   conversationId, skipNextQuestion, userInput, finalMessages,
                   steps, turns, arg, ret, selectedConversation>>

\* mutant: after the final save the loop asks again
Finally_AsksAgain ==
    /\ pc = "finally"
    /\ pc' = "ask"
    /\ files' = writeFileSync(files, currentFilePath, clientMessages)
    /\ continueAnswer' = <<>>
    /\ shutdownLog' = <<>>
    /\ UNCHANGED <<clientMessages, knownIds, messageCount, isFirstUserInput,
                   isResumedConversation, currentChatTitle, currentFilePath,
                   conversationId, skipNextQuestion, userInput, finalMessages,
                   steps, turns, arg, ret, selectedConversation>>

\* main, lines 361-369: rl.close() (line 362) and then the final save
\* (line 365); shutdownLog keeps the two effects in the order of the code
Finally ==
    /\ pc = "finally"
    /\ pc' = "terminated"
    /\ files' = writeFileSync(files, currentFilePath, clientMessages)
    /\ continueAnswer' = <<>>
    /\ shutdownLog' = <<"release", "write">>
    /\ UNCHANGED <<clientMessages, knownIds, messageCount, isFirstUserInput,
                   isResumedConversation, currentChatTitle, currentFilePath,
                   conversationId, skipNextQuestion, userInput, finalMessages,
                   steps, turns, arg, ret, selectedConversation>>

Next ==
    \/ \E answer \in SelectAnswers, fixError \in BOOLEAN :
          Select(answer, fixError)
    \/ \E summary \in SummaryOutcomes, ioError \in BOOLEAN :
          ResumeTitle(summary, ioError)
    \/ \E line \in UserInputs : ReadInput(line)
    \/ \E summary \in SummaryOutcomes, ioError \in BOOLEAN :
          InitialTitle(summary, ioError)
    \/ \E summary \in SummaryOutcomes, ioError \in BOOLEAN :
          Check1Update(summary, ioError)
    \/ Check1Skip
    \/ \E batch \in ModelBatches(turns, clientMessages),
          stepCount \in StepCounts : Stream(batch, stepCount)
    \/ StreamRejects
    \/ \E summary \in SummaryOutcomes, ioError \in BOOLEAN :
          Check2Update(summary, ioError)
    \/ Check2Skip
    \/ Save
    \/ \E answer \in GateAnswers, readError \in BOOLEAN :
          Gate(answer, readError)
    \/ Finally

Spec == Init /\ [][Next]_vars

\* ------------------------------------------------------------------------
\* Claims about the session
\* ------------------------------------------------------------------------

Hinted(history) == {i \in 1..Len(history) : history[i].hint}

Assistants(history) ==
    {i \in 1..Len(history) : history[i].role = "assistant"}

IsLastAssistant(history, i) ==
    /\ i \in Assistants(history)
    /\ \A j \in Assistants(history) : j <= i

\* the top of the loop and the gate: no turn is in progress
TurnBoundary == pc \in {"ask", "gate"}

\* C2 as stated: at most one message of the history, of any role, carries a
\* cache hint, and if one does it is the last assistant message.
C2_OneHintOfAnyRole ==
    /\ Cardinality(Hinted(clientMessages)) <= 1
    /\ \A i \in Hinted(clientMessages) : IsLastAssistant(clientMessages, i)

\* C2 amended: at most one assistant message carries a cache hint, and if
\* one does it is the last assistant message; no user or tool message
\* carries one.
C2_OneAssistantHint ==
    /\ Cardinality(Hinted(clientMessages) \cap Assistants(clientMessages)) <= 1
    /\ \A i \in Hinted(clientMessages) :
          \/ IsLastAssistant(clientMessages, i)
          \/ clientMessages[i].role = "system"

\* after a merge of this session the history holds an earlier assistant
\* message without hint, the hinted last assistant message, and the hinted
\* system message
C2_Witness ==
    /\ pc = "check2"
    /\ Cardinality(Assistants(clientMessages)) >= 2
    /\ \E i \in Hinted(clientMessages) :
          /\ IsLastAssistant(clientMessages, i)
          /\ clientMessages[i].id \in knownIds
    /\ clientMessages[1].role = "system"
    /\ clientMessages[1].hint

\* C3: no two messages of the history carry the same id.
C3_NoDuplicateIds ==
    \A i, j \in 1..Len(clientMessages) :
        (i < j /\ clientMessages[i].id # NoId)
            => clientMessages[i].id # clientMessages[j].id

\* C7: at every turn boundary messageCount is the number of user and
\* assistant messages of the history.
C7_MessageCountIsCount ==
    TurnBoundary => messageCount = CountUserAssistant(clientMessages)

\* C8, for the fresh sessions it names: after the rewrite of a completed turn
\* the file path is the name the id and the title give, unless a file exists
\* at that name (the rename towards it was refused).
C8_FilePathIsNameFor ==
    (TurnBoundary /\ turns >= 1 /\ ~isResumedConversation) =>
        LET target == getConversationFileName(logDir, conversationId,
                                              currentChatTitle)
        IN  currentFilePath = target \/ target \in DOMAIN files

\* ------------------------------------------------------------------------
\* SpecSchedule: a fresh session in an empty directory whose turns each get
\* one assistant reply, whose summarizer returns a title and whose model call
\* stays below the step limit
\* ------------------------------------------------------------------------

\* the turns of the scenario
ScheduleTurns == 5

\* the lines the user types: a message, and the empty line
ScheduleInputs == {<<"h", "i">>, <<>>}

\* response.messages of turn t with exactly one assistant message
ScheduleBatches(t) ==
    {<<Msg("assistant", FreshId(t, 1), "reply", FALSE)>>,
     <<Msg("assistant", FreshId(t, 1), "reply", FALSE),
       Msg("tool", FreshId(t, 2), "result", FALSE)>>}

InitSchedule == Init /\ arg = <<>>

NextSchedule ==
    \/ Select(<<>>, FALSE)
    \/ \E line \in ScheduleInputs : ReadInputWithin(line, ScheduleTurns)
    \/ \E summary \in SummaryTitles, ioError \in BOOLEAN :
          InitialTitle(summary, ioError)
    \/ \E summary \in SummaryTitles, ioError \in BOOLEAN :
          Check1Update(summary, ioError)
    \/ Check1Skip
    \/ \E batch \in ScheduleBatches(turns) : Stream(batch, MAX_STEPS - 1)
    \/ \E summary \in SummaryTitles, ioError \in BOOLEAN :
          Check2Update(summary, ioError)
    \/ Check2Skip
    \/ Save

SpecSchedule == InitSchedule /\ [][NextSchedule]_vars

\* the two check points at which the schedule puts a title update
ScheduledCheck ==
    \/ pc = "check1" /\ turns = 3 /\ messageCount = 5
    \/ pc = "check2" /\ turns = 5 /\ messageCount = 10

\* C11: over the five turns a title update is attempted at the check after
\* the user message of turn 3 (messageCount = 5) and at the check after the
\* reply of turn 5 (messageCount = 10), and at no other check point.
C11_TitleSchedule ==
    pc \in {"check1", "check2"} => (TitleDue <=> ScheduledCheck)

\* C11 for the sessions whose first input is neither blank nor "continue",
\* so that the first turn set a title.
C11_ScheduleAfterInitialTitle ==
    (/\ pc \in {"check1", "check2"}
     /\ trim(clientMessages[2].content) # <<>>
     /\ clientMessages[2].content # ContinueInput)
        => (TitleDue <=> ScheduledCheck)

\* ------------------------------------------------------------------------
\* Claims about the turn loop
\* ------------------------------------------------------------------------

\* the session was resumed from a file named
\* conversation-{canonical timestamp}-{slug}.json
ResumedTitled == pc # "select" /\ TitledFileNameMatch(selectedConversation)

\* C12: resuming conversation-{timestamp}-{slug}.json gives the session that
\* timestamp as id, the title extractTitle gives for the file name and the
\* selected file as file path, with the title not taken from the summarizer
\* and no file renamed while selecting; afterwards the file path and the
\* names of the directory change only in a title check whose update changes
\* the title.
C12_ResumeTitledFile ==
    /\ [](ResumedTitled =>
            /\ pc # "resumeTitle"
            /\ isResumedConversation
            /\ conversationId
                  = SubSeq(MiddleOf(selectedConversation), 1, Len(timestampPattern)))
    /\ []((ResumedTitled /\ pc = "ask" /\ turns = 0) =>
            /\ currentChatTitle = extractTitleFromFileName(selectedConversation)
            /\ currentFilePath = PathJoin(logDir, selectedConversation)
            /\ files = FilesOf(arg))
    /\ [][(ResumedTitled /\ (\/ currentFilePath' # currentFilePath
                              \/ DOMAIN files' # DOMAIN files))
            => (/\ pc \in {"check1", "check2"}
                /\ currentChatTitle' # currentChatTitle)]_vars

\* a session resumed from a titled file whose title was updated and whose
\* file was renamed then
C12_Witness ==
    /\ ResumedTitled
    /\ currentChatTitle # extractTitleFromFileName(selectedConversation)
    /\ currentFilePath # PathJoin(logDir, selectedConversation)
    /\ currentFilePath \in DOMAIN files
    /\ PathJoin(logDir, selectedConversation) \notin DOMAIN files

\* the answer the gate read is a yes
AnsweredYes(answer) == toLowerCase(answer) \in {<<"y">>, <<"y", "e", "s">>}

\* C13: after the rewrite of a turn the session enters the continuation gate
\* exactly when the turn's step count is at least MAX_STEPS, and the gate is
\* entered from nowhere else; at the gate an answer that is not a yes, or a
\* read error, leads to the final save, after which the session terminates
\* and takes no further step (no model call, no input read).
C13_GateEntryAndRefusal ==
    /\ [][pc = "save" => (pc' = "gate" <=> steps >= MAX_STEPS)]_vars
    /\ [][pc' = "gate" => pc = "save"]_vars
    /\ [][(pc = "gate" /\ ~AnsweredYes(continueAnswer')) => pc' = "finally"]_vars
    /\ [][pc = "finally" => pc' = "terminated"]_vars
    /\ [][pc # "terminated"]_vars

\* the gate was entered after a turn of MAX_STEPS steps and the answer "n"
\* ended the session
C13_Witness ==
    /\ pc = "finally"
    /\ steps = MAX_STEPS
    /\ continueAnswer = <<"n">>

\* C14: a yes at the gate takes the session back to the top of the loop with
\* skipNextQuestion set, which nothing else sets; the pass that starts then
\* takes "continue" as its input whatever the terminal holds, appends it as
\* the user message of a turn and resets skipNextQuestion, so the pass after
\* it reads the terminal again.
C14_GateAcceptance ==
    /\ [][(pc = "gate" /\ AnsweredYes(continueAnswer'))
            => (pc' = "ask" /\ skipNextQuestion')]_vars
    /\ [][(skipNextQuestion' /\ ~skipNextQuestion) => pc = "gate"]_vars
    /\ [](skipNextQuestion => pc = "ask")
    /\ [][(pc = "ask" /\ skipNextQuestion)
            => (/\ userInput' = ContinueInput
                /\ clientMessages'
                      = Append(clientMessages, UserMessage(ContinueInput))
                /\ pc' \in {"initialTitle", "check1"}
                /\ ~skipNextQuestion')]_vars

\* the turn after an accepted gate runs on the forced input
C14_Witness ==
    /\ pc = "check1"
    /\ turns = 2
    /\ userInput = ContinueInput
    /\ clientMessages[Len(clientMessages)] = UserMessage(ContinueInput)
    /\ ~skipNextQuestion

\* C15: a pass of the loop whose input is save or history, in any case,
\* comes back to the top of the loop without a turn: history, messageCount,
\* knownIds, title, file path, isFirstUserInput and id are unchanged; save
\* writes the whole history to the file at the file path, history leaves
\* every file as it is.
C15_SpecialCommandsFrame ==
    [][(/\ pc = "ask"
        /\ ~skipNextQuestion
        /\ toLowerCase(userInput') \in {SaveInput, HistoryInput})
        => (/\ pc' = "ask"
            /\ turns' = turns
            /\ UNCHANGED <<clientMessages, messageCount, knownIds,
                           currentChatTitle, currentFilePath,
                           isFirstUserInput, conversationId,
                           isResumedConversation>>
            /\ toLowerCase(userInput') = SaveInput
                  => files' = writeFileSync(files, currentFilePath,
                                            clientMessages)
            /\ toLowerCase(userInput') = HistoryInput => files' = files)]_vars

\* SAVE before the first turn of a fresh session wrote the session's file
C15_Witness ==
    /\ pc = "ask"
    /\ turns = 0
    /\ ~isResumedConversation
    /\ userInput = <<"S", "A", "V", "E">>
    /\ currentFilePath \in DOMAIN files
    /\ files[currentFilePath] = clientMessages
    /\ messageCount = 0

\* C16: the session terminates only through the final save, which is reached
\* from the loop top (exit), the gate (refusal, read error) and the model
\* call (rejection) without a write on the way; the final save writes the
\* whole history to the file at the file path once, and the terminated
\* session takes no further step, so its file holds exactly its history.
C16_FinalFlush ==
    /\ [][pc' = "finally"
            => (pc \in {"ask", "gate", "stream"} /\ files' = files)]_vars
    /\ [][pc' = "terminated"
            => (/\ pc = "finally"
                /\ files' = writeFileSync(files, currentFilePath, clientMessages)
                /\ UNCHANGED <<clientMessages, currentFilePath>>)]_vars
    /\ [][pc # "terminated"]_vars
    /\ [](pc = "terminated"
            => (/\ currentFilePath \in DOMAIN files
                /\ files[currentFilePath] = clientMessages))

\* a session whose model call rejected in its first turn has terminated, and
\* its file holds the history with the user message of that turn
C16_Witness ==
    /\ pc = "terminated"
    /\ turns = 1
    /\ userInput = <<"h", "i">>
    /\ clientMessages[Len(clientMessages)] = UserMessage(<<"h", "i">>)
    /\ files[currentFilePath] = clientMessages

\* C17: a pass of the loop that is neither a special command nor exit appends
\* the user message, then runs the first title check, then the model call
\* with the merge of its final messages, then the second title check, then
\* the rewrite of the whole history into the file at the file path; only the
\* rewrite leads to the gate or back to the loop top, so at the gate and at
\* the loop top after a turn the file holds exactly the history. (A model
\* call that rejects leaves the order for the final save.)
C17_TurnOrder ==
    /\ [][(pc = "ask" /\ pc' \notin {"ask", "finally"})
            => (/\ pc' \in {"initialTitle", "check1"}
                /\ clientMessages'
                      = Append(clientMessages, UserMessage(userInput'))
                /\ files' = files)]_vars
    /\ [][pc = "initialTitle"
            => (pc' = "check1" /\ UNCHANGED <<clientMessages, knownIds>>)]_vars
    /\ [][pc = "check1"
            => (pc' = "stream" /\ UNCHANGED <<clientMessages, knownIds>>)]_vars
    /\ [][(pc = "stream" /\ pc' # "finally")
            => (/\ pc' = "check2"
                /\ files' = files
                /\ clientMessages'
                      = appendFinalMessages(clientMessages, finalMessages',
                                            knownIds, TRUE).history)]_vars
    /\ [][pc = "check2"
            => (pc' = "save" /\ UNCHANGED <<clientMessages, knownIds>>)]_vars
    /\ [][pc = "save"
            => (/\ pc' \in {"gate", "ask"}
                /\ UNCHANGED <<clientMessages, currentFilePath>>
                /\ files' = writeFileSync(files, currentFilePath, clientMessages)
                /\ files'[currentFilePath] = clientMessages)]_vars
    /\ [][pc' = "gate" => pc = "save"]_vars
    /\ [][(pc' = "ask" /\ turns' >= 1) => pc \in {"ask", "save", "gate"}]_vars
    /\ []((pc \in {"ask", "gate"} /\ turns >= 1)
            => (/\ currentFilePath \in DOMAIN files
                /\ files[currentFilePath] = clientMessages))

\* the first turn of a fresh session is over: the answer of the model is
\* merged, the title is set, the file is rewritten and the gate is entered
C17_Witness ==
    /\ pc = "gate"
    /\ turns = 1
    /\ ~isResumedConversation
    /\ currentChatTitle # <<>>
    /\ Len(clientMessages) >= 3
    /\ clientMessages[2].role = "user"
    /\ clientMessages[Len(clientMessages)].role = "assistant"
    /\ files[currentFilePath] = clientMessages

\* a step of title maintenance of main: the initial title or a title check
TitleStep == pc \in {"initialTitle", "check1", "check2"}

\* the position of main after the title step at position p
AfterTitleStep(p) ==
    IF p = "initialTitle" THEN "check1"
    ELSE IF p = "check1" THEN "stream" ELSE "save"

\* C18: whatever a title step meets (a throw of the summarizer, a rename
\* refused because the destination exists or the source is missing, an I/O
\* error of the rename), the loop goes on to the next position of the turn
\* and never to the end of the session; the history is untouched; a title
\* step that does not move the file path leaves every file alone, one that
\* moves it carries the content already written to the new path and leaves
\* every other file alone; and the rewrite of the turn writes the whole
\* history to the file at the file path.
C18_PersistenceWins ==
    /\ [][TitleStep
            => (/\ pc' = AfterTitleStep(pc)
                /\ UNCHANGED <<clientMessages, knownIds, messageCount>>)]_vars
    /\ [][(TitleStep /\ currentFilePath' = currentFilePath)
            => files' = files]_vars
    /\ [][(TitleStep /\ currentFilePath' # currentFilePath)
            => (/\ currentFilePath \in DOMAIN files
                /\ currentFilePath' \in DOMAIN files'
                /\ files'[currentFilePath'] = files[currentFilePath]
                /\ \A f \in DOMAIN files \ {currentFilePath} :
                      f \in DOMAIN files' /\ files'[f] = files[f])]_vars
    /\ [][pc' \in {"finally", "terminated"} => ~TitleStep]_vars
    /\ [][pc = "save"
            => (/\ pc' \in {"ask", "gate"}
                /\ currentFilePath \in DOMAIN files'
                /\ files'[currentFilePath] = clientMessages'
                /\ clientMessages' = clientMessages)]_vars

\* the summarizer threw at the initial title of a fresh session, for the
\* input "hi": the title is still empty, and the turn ran to its rewrite
\* with the answer of the model in the history and in the file
C18_Witness ==
    /\ pc \in {"ask", "gate"}
    /\ turns = 1
    /\ ~isResumedConversation
    /\ ~isFirstUserInput
    /\ currentChatTitle = <<>>
    /\ Len(clientMessages) >= 3
    /\ clientMessages[2] = UserMessage(<<"h", "i">>)
    /\ clientMessages[3].role = "assistant"
    /\ files[currentFilePath] = clientMessages

\* the title, the file path and the files as main holds them
TitleState ==
    [title |-> currentChatTitle, updatedFilePath |-> currentFilePath,
     files |-> files]

\* C19: at every call of generateInitialTitle and of updateConversationTitle
\* that main makes, a summarizer that throws makes the call return the title
\* and the file path main held before it, with the files untouched, whether
\* or not a rename would have failed; the call returns, so main takes its
\* next position and the title, the path and the files stay as they were
\* whenever the title and the path do.
C19_SummarizerFailure ==
    /\ [](pc = "initialTitle"
            => \A ioError \in BOOLEAN :
                  generateInitialTitle(files, userInput, currentFilePath,
                                       conversationId, SummaryThrows, ioError)
                      = TitleState)
    /\ []((pc \in {"check1", "check2"} /\ TitleDue)
            => \A ioError \in BOOLEAN :
                  updateConversationTitle(files, currentChatTitle,
                                          currentFilePath, conversationId,
                                          SummaryThrows, ioError)
                      = TitleState)
    /\ [][(TitleStep /\ UNCHANGED <<currentChatTitle, currentFilePath>>)
            => (pc' = AfterTitleStep(pc) /\ files' = files)]_vars

\* the summarizer threw at the initial title of a fresh session, for the
\* input "hi": main is at its first title check with the title still empty
\* and the file path still the one of the untitled file
C19_Witness ==
    /\ pc = "check1"
    /\ turns = 1
    /\ ~isResumedConversation
    /\ ~isFirstUserInput
    /\ userInput = <<"h", "i">>
    /\ currentChatTitle = <<>>
    /\ currentFilePath = getConversationFileName(logDir, conversationId, <<>>)

\* C20: the model call is made with the user message of the turn as the last
\* message of the history; when it rejects, main goes to the final save with
\* the history, the known ids and the files as they were (no merge), the
\* final save writes that history, user message included, to the file at
\* the file path, and the terminated session takes no further step, so no
\* model call and no input read follows.
C20_ModelFailure ==
    /\ [](pc = "stream"
            => clientMessages[Len(clientMessages)] = UserMessage(userInput))
    /\ [][(pc = "stream" /\ pc' # "check2")
            => (/\ pc' = "finally"
                /\ UNCHANGED <<clientMessages, knownIds, messageCount, files,
                               userInput, turns>>)]_vars
    /\ [][pc = "finally"
            => (/\ pc' = "terminated"
                /\ UNCHANGED <<clientMessages, knownIds, userInput, turns>>
                /\ currentFilePath \in DOMAIN files'
                /\ files'[currentFilePath] = clientMessages)]_vars
    /\ [][pc # "terminated"]_vars

\* the model call of the second turn rejected: the session has terminated
\* and its file ends with the user message of that turn
C20_Witness ==
    /\ pc = "terminated"
    /\ turns = 2
    /\ userInput = <<"h", "i">>
    /\ Len(clientMessages) >= 4
    /\ clientMessages[Len(clientMessages)] = UserMessage(<<"h", "i">>)
    /\ files[currentFilePath][Len(files[currentFilePath])]
          = UserMessage(<<"h", "i">>)

\* ------------------------------------------------------------------------
\* SpecCatalog: listConversations on its own
\* ------------------------------------------------------------------------

\* the largest number of conversation files in a directory
MaxCatalogFiles == 12

\* the modification time of the i-th of n files: oldest first, newest first,
\* scattered, and in pairs of equal time
Mtime(order, n, i) ==
    IF order = 1 THEN i
    ELSE IF order = 2 THEN n + 1 - i
    ELSE IF order = 3 THEN (7 * i) % (MaxCatalogFiles + 1)
    ELSE i \div 2

MtimeOrders == 1..4

\* which of n files fail to parse: none; every third; the newest ones
FailsToParse(pattern, order, n, i) ==
    IF pattern = 1 THEN FALSE
    ELSE IF pattern = 2 THEN i % 3 = 0
    ELSE \A j \in 1..n : Mtime(order, n, j) <= Mtime(order, n, i)

ParsePatterns == 1..3

\* a file that is no conversation file, newer than every conversation file
OtherFile ==
    [fileName |-> <<"n", "o", "t", "e", "s">>,
     mtime |-> MaxCatalogFiles + MaxCatalogFiles,
     content |-> <<SystemMessage>>]

\* a directory of n conversation files, behind OtherFile when withOther
CatalogDirectory(n, order, pattern, withOther) ==
    (IF withOther THEN <<OtherFile>> ELSE <<>>)
    \o [i \in 1..n |->
          DirEntry(ToDecimal(i), Mtime(order, n, i),
                   IF FailsToParse(pattern, order, n, i) THEN Corrupt
                   ELSE IF i % 2 = 0 THEN HistoryOf4
                   ELSE <<SystemMessage>>)]

InitCatalog ==
    /\ SessionIdle
    /\ \E n \in 0..MaxCatalogFiles, order \in MtimeOrders,
          pattern \in ParsePatterns, withOther \in BOOLEAN :
              arg = CatalogDirectory(n, order, pattern, withOther)
    /\ ret = <<>>

CatalogCall ==
    /\ ret = <<>>
    /\ ret' = <<listConversations(arg)>>
    /\ UNCHANGED <<arg, sessionVars>>

NextCatalog == CatalogCall

SpecCatalog == InitCatalog /\ [][NextCatalog]_vars

\* the conversation files of a directory listing
ConversationFilesOf(dir) ==
    {i \in 1..Len(dir) : IsConversationFileName(dir[i].fileName)}

\* the conversation files of dir that are newer than its i-th file
NewerThan(dir, i) ==
    {j \in ConversationFilesOf(dir) : dir[j].mtime > dir[i].mtime}

\* C21: listConversations returns at most ten entries; each of them is a
\* conversation file of the directory with fewer than ten conversation files
\* newer than it, listed with its modification time; and no entry is newer
\* than the entry before it.
C21_CatalogBoundAndOrder ==
    ret # <<>> =>
        LET listed == ret[1]
        IN  /\ Len(listed) <= CatalogCap
            /\ \A k \in 1..Len(listed) :
                  \E i \in ConversationFilesOf(arg) :
                      /\ arg[i].fileName = listed[k].fileName
                      /\ arg[i].mtime = listed[k].lastModified
                      /\ Cardinality(NewerThan(arg, i)) < CatalogCap
            /\ \A k \in 1..(Len(listed) - 1) :
                  listed[k].lastModified >= listed[k + 1].lastModified

\* more than ten readable conversation files, the newest of them not the
\* first of the directory: ten are listed and the oldest ones are left out
C21_Witness ==
    /\ ret # <<>>
    /\ Cardinality(ConversationFilesOf(arg)) > CatalogCap
    /\ \A i \in 1..Len(arg) : arg[i].content # Corrupt
    /\ \E i \in ConversationFilesOf(arg) : arg[i].mtime > arg[1].mtime
    /\ Len(ret[1]) = CatalogCap
    /\ \E i \in ConversationFilesOf(arg) :
          \A k \in 1..Len(ret[1]) : ret[1][k].fileName # arg[i].fileName

\* the files of dir that parse, among the first ten of its conversation
\* files, newest first and files of equal time in directory order
ReadableCandidates(dir) ==
    {i \in ConversationFilesOf(dir) :
        /\ dir[i].content # Corrupt
        /\ Cardinality({j \in ConversationFilesOf(dir) :
                           j < i /\ dir[j].mtime = dir[i].mtime})
             + Cardinality(NewerThan(dir, i)) < CatalogCap}

\* C22: listConversations returns a listing whatever the files hold; no file
\* that fails to parse is listed; every candidate that parses is listed, once,
\* with the number of its user and assistant messages; so one unreadable file
\* beside five readable ones gives exactly five entries.
C22_CorruptFilesDropped ==
    ret # <<>> =>
        LET listed == ret[1]
        IN  /\ \A k \in 1..Len(listed) :
                  \E i \in ReadableCandidates(arg) :
                      arg[i].fileName = listed[k].fileName
            /\ \A i \in ReadableCandidates(arg) :
                  \E k \in 1..Len(listed) :
                      /\ listed[k].fileName = arg[i].fileName
                      /\ listed[k].messageCount
                            = CountUserAssistant(arg[i].content)
            /\ Len(listed) = Cardinality(ReadableCandidates(arg))

\* six conversation files, the newest of them unreadable: five are listed
C22_Witness ==
    /\ ret # <<>>
    /\ Cardinality(ConversationFilesOf(arg)) = 6
    /\ Cardinality({i \in 1..Len(arg) : arg[i].content = Corrupt}) = 1
    /\ Len(ret[1]) = 5

\* C23: the k-th entry of a listing has the display id k.
C23_DisplayIdIsPosition ==
    ret # <<>> => \A k \in 1..Len(ret[1]) : ret[1][k].id = ToDecimal(k)

\* ------------------------------------------------------------------------
\* SpecSelecting: main from its start to the top of the loop, with the
\* directory and the answer to "Your choice: " held in arg
\* ------------------------------------------------------------------------

\* the largest number of files in the generated directories of SpecSelecting
MaxSelectingFiles == 3

SelectingAnswers ==
    SelectAnswers \cup {<<"2">>, <<"3">>, <<"1", " ">>, <<"0", "1">>}

\* directories with one file of a single system message whose name holds no
\* timestamp: without and with a title part, and with a title part beside
\* files that have the names the start timestamp gives
MalformedTitled == <<"o", "l", "d", "-", "m", "y", "_", "t">>

MalformedDirectories ==
    {<<DirEntry(<<"o", "l", "d">>, 1, <<SystemMessage>>)>>,
     <<DirEntry(MalformedTitled, 1, <<SystemMessage>>)>>,
     <<DirEntry(MalformedTitled, 2, <<SystemMessage>>),
       DirEntry(timestamp, 1, HistoryOf2),
       DirEntry(timestamp \o <<"-", "m", "y", "_", "t">>, 1, HistoryOf2)>>}

InitSelecting ==
    /\ pc = "select"
    /\ \E answer \in SelectingAnswers :
          \/ \E dir \in StartDirectories \cup MalformedDirectories :
                arg = [dir |-> dir, answer |-> answer]
          \/ \E n \in 1..MaxSelectingFiles, order \in MtimeOrders,
                pattern \in ParsePatterns :
                arg = [dir |-> CatalogDirectory(n, order, pattern, FALSE),
                       answer |-> answer]
    /\ files = FilesOf(arg.dir)
    /\ clientMessages = <<>>
    /\ knownIds = {}
    /\ messageCount = 0
    /\ isFirstUserInput = TRUE
    /\ isResumedConversation = FALSE
    /\ currentChatTitle = <<>>
    /\ currentFilePath = <<>>
    /\ conversationId = <<>>
    /\ skipNextQuestion = FALSE
    /\ userInput = <<>>
    /\ finalMessages = <<>>
    /\ steps = 0
    /\ turns = 0
    /\ selectedConversation = <<>>
    /\ continueAnswer = <<>>
    /\ shutdownLog = <<>>
    /\ ret = <<>>

SelectingCall ==
    \E fixError \in BOOLEAN : SelectIn(arg.dir, arg.answer, fixError)

NextSelecting ==
    \/ SelectingCall
    \/ \E summary \in SummaryOutcomes, ioError \in BOOLEAN :
          ResumeTitle(summary, ioError)

SpecSelecting == InitSelecting /\ [][NextSelecting]_vars

\* the entries of the listing of dir whose display id is the trimmed answer
ChosenEntries(dir, answer) ==
    LET listing == listConversations(dir)
    IN  {k \in 1..Len(listing) : listing[k].id = trim(answer)}

\* C24: at the top of the loop the session is resumed exactly when the
\* trimmed answer is the display id of an entry of the listing; then the
\* history is the content of that entry's file and isFirstUserInput is
\* false; otherwise (an empty answer, an answer that names no entry) the
\* session is fresh: its id is the start timestamp, its history is the
\* system message alone, messageCount is 0 and the title is empty.
C24_SelectingOutcome ==
    pc = "ask" =>
        LET listing == listConversations(arg.dir)
            chosen  == ChosenEntries(arg.dir, arg.answer)
        IN  /\ isResumedConversation <=> chosen # {}
            /\ trim(arg.answer) = <<>> => ~isResumedConversation
            /\ chosen # {} =>
                  /\ Cardinality(chosen) = 1
                  /\ \A k \in chosen :
                        /\ selectedConversation = listing[k].fileName
                        /\ \E i \in 1..Len(arg.dir) :
                              /\ arg.dir[i].fileName = listing[k].fileName
                              /\ clientMessages = arg.dir[i].content
                  /\ ~isFirstUserInput
            /\ chosen = {} =>
                  /\ conversationId = timestamp
                  /\ clientMessages = <<SystemMessage>>
                  /\ messageCount = 0
                  /\ currentChatTitle = <<>>
                  /\ isFirstUserInput
                  /\ files = FilesOf(arg.dir)

\* the answer " 2" picked the second entry of a listing of two files
C24_Witness ==
    /\ pc = "ask"
    /\ arg.answer = <<" ", "2">>
    /\ Len(listConversations(arg.dir)) = 2
    /\ isResumedConversation
    /\ selectedConversation = listConversations(arg.dir)[2].fileName
    /\ Len(clientMessages) > 1

\* the user messages of history that are neither blank nor the forced input
SubstantiveInputs(history) ==
    {i \in 1..Len(history) :
        /\ history[i].role = "user"
        /\ trim(history[i].content) # <<>>
        /\ history[i].content # ContinueInput}

\* C25: in a fresh session whose summarizer answers, once a user input that
\* is neither blank nor the forced input has passed the initial title step,
\* the session has a title, whatever blank inputs came before it.
C25_InitialTitleGenerated ==
    (/\ pc \in {"check1", "stream", "check2", "save"}
     /\ ~isResumedConversation
     /\ SubstantiveInputs(clientMessages) # {})
        => currentChatTitle # <<>>

\* ------------------------------------------------------------------------
\* SpecTitleRule: one title update at a check point, on its own
\* ------------------------------------------------------------------------

\* the title check after the response in the main of part_002, lines
\* 431-457, in the form of updateConversationTitle
UpdateTitleAfterResponse(fs, title, path, id, newTitle, ioError) ==
    IF newTitle = SummaryThrows
    THEN [title |-> title, updatedFilePath |-> path, files |-> fs]
    ELSE IF newTitle # title
    THEN LET r == updateConversationFile(fs, logDir, path, id, newTitle, ioError)
         IN  [title |-> newTitle, updatedFilePath |-> r.path, files |-> r.files]
    ELSE [title |-> title, updatedFilePath |-> path, files |-> fs]

\* the code that runs a title update: updateConversationTitle (both check
\* points of rpc/index.ts) and the check after the response of part_002
UpdateSites == {"updateConversationTitle", "afterResponse"}

\* what the summarizer a caller passes to updateConversationTitle (its
\* parameter aiService) can return: nothing, a blank, the titles of the
\* session model, TitleA in lower case; or it throws
RuleSummaries ==
    {<<>>, <<" ">>, TitleA, TitleX, <<"a", "b", " ", "c">>, SummaryThrows}

\* what generateChatSummary of AIService returns: a title in title case,
\* "New Chat Session" for an answer that cleans to nothing, "Chat Session"
\* when the call of the model fails; never a blank, and it never throws
GeneratedSummaries ==
    {TitleA, TitleX,
     <<"N", "e", "w", " ", "C", "h", "a", "t", " ",
       "S", "e", "s", "s", "i", "o", "n">>,
     <<"C", "h", "a", "t", " ", "S", "e", "s", "s", "i", "o", "n">>}

\* the returned titles a site can meet: the check of part_002 calls
\* generateChatSummary of its own AIService (part_002, lines 39 and 436)
SummariesAt(site) ==
    IF site = "afterResponse" THEN GeneratedSummaries ELSE RuleSummaries

\* the paths of the files beside the session file
RulePaths == {getConversationFileName(logDir, Ts1, t) : t \in {<<>>, TitleA, TitleX}}

InitTitleRule ==
    /\ SessionIdleButFiles
    /\ turns = 0
    /\ \E d \in SUBSET RulePaths : files = [p \in d |-> ContentAt(p)]
    \* the current title is one the summarizer gave, or the one
    \* extractTitleFromFileName reads from a file named by hand, which
    \* keeps capitals after the first letter of a word
    /\ \E site \in UpdateSites,
          title \in SummaryTitles \cup {<<"A", "B", " ", "C">>},
          path \in RulePaths, ioError \in BOOLEAN :
          \E newTitle \in SummariesAt(site) :
              arg = [site |-> site, title |-> title, path |-> path,
                     newTitle |-> newTitle, ioError |-> ioError]
    /\ ret = <<>>

TitleRuleCall ==
    /\ ret = <<>>
    /\ ret' = <<IF arg.site = "afterResponse"
                THEN UpdateTitleAfterResponse(files, arg.title, arg.path, Ts1,
                                              arg.newTitle, arg.ioError)
                ELSE updateConversationTitle(files, arg.title, arg.path, Ts1,
                                             arg.newTitle, arg.ioError)>>
    /\ UNCHANGED <<arg, sessionVars>>

NextTitleRule == TitleRuleCall

SpecTitleRule == InitTitleRule /\ [][NextTitleRule]_vars

\* C26: at every site of a title update, a returned title that is not blank
\* and differs from the current title, be it in the case of a letter only,
\* replaces the title and renames the file by updateConversationFile; a
\* returned title that is blank or equal to the current title leaves the
\* title and the file path as they were and leaves the files alone.
C26_TitleUpdateRule ==
    (ret # <<>> /\ arg.newTitle # SummaryThrows) =>
        IF trim(arg.newTitle) # <<>> /\ arg.newTitle # arg.title
        THEN LET r == updateConversationFile(files, logDir, arg.path, Ts1,
                                             arg.newTitle, arg.ioError)
             IN  /\ ret[1].title = arg.newTitle
                 /\ ret[1].updatedFilePath = r.path
                 /\ ret[1].files = r.files
        ELSE /\ ret[1].title = arg.title
             /\ ret[1].updatedFilePath = arg.path
             /\ ret[1].files = files

\* the check after the response of part_002 took a title that differs from
\* the current one in the case of a letter only, and the file was renamed
C26_Witness ==
    /\ ret # <<>>
    /\ arg.site = "afterResponse"
    /\ arg.title = <<"A", "B", " ", "C">>
    /\ arg.newTitle = TitleA
    /\ ret[1].title = TitleA
    /\ ret[1].updatedFilePath # arg.path
    /\ ret[1].updatedFilePath \in DOMAIN ret[1].files
    /\ arg.path \notin DOMAIN ret[1].files

\* C27: a rename that fails in the file system is no rename. For every file
\* the user can pick, fixMalformedFilename with a throwing rename returns the
\* path of the picked file and leaves the files alone; at every later
\* position, updateConversationFile with a throwing rename returns the file
\* path of the session and leaves the files alone; main goes on from the
\* selection and from every title step; and every save writes the history to
\* the file path the session holds, which the save does not change.
C27_RenameBestEffort ==
    /\ [](pc = "select"
            => \A k \in 1..Len(listConversations(arg)) :
                  LET selected == listConversations(arg)[k].fileName
                  IN  fixMalformedFilename(files, logDir, selected, timestamp,
                                           <<>>, TRUE)
                        = [path |-> PathJoin(logDir, selected), files |-> files])
    /\ [](pc \notin {"select", "terminated"}
            => \A title \in SummaryTitles :
                  updateConversationFile(files, logDir, currentFilePath,
                                         conversationId, title, TRUE)
                    = [path |-> currentFilePath, files |-> files])
    /\ [][pc = "select" => (pc' = "ask" \/ pc' = "resumeTitle")]_vars
    /\ [][pc = "resumeTitle" => pc' = "ask"]_vars
    /\ [][TitleStep => pc' = AfterTitleStep(pc)]_vars
    /\ [][(pc = "save" \/ pc = "finally")
            => (/\ files' = writeFileSync(files, currentFilePath, clientMessages)
                /\ UNCHANGED currentFilePath)]_vars

\* the user resumed conversation-old.json; the rename onto the start
\* timestamp failed and the rename onto the generated title failed, and the
\* first turn was saved into conversation-old.json
C27_Witness ==
    /\ pc = "ask"
    /\ turns = 1
    /\ selectedConversation = FileNameOf(<<"o", "l", "d">>)
    /\ conversationId = timestamp
    /\ currentChatTitle # <<>>
    /\ currentFilePath = PathJoin(logDir, selectedConversation)
    /\ DOMAIN files = {currentFilePath}
    /\ files[currentFilePath] = clientMessages
    /\ Len(clientMessages) > Len(HistoryOf2)

\* the candidate id main takes from a file name (lines 105-114) is not a
\* timestamp
MalformedName(fileName) ==
    LET extractedId == MiddleOf(fileName)
        candidateId == IF StartsWithTimestamp(extractedId)
                       THEN SubSeq(extractedId, 1, Len(timestampPattern))
                       ELSE extractedId
    IN  ensureProperConversationId(candidateId, timestamp) # candidateId

\* the title in a file name conversation-{id}-{title}.json whose id holds no
\* hyphen, read as extractTitleFromFileName reads a title; empty when the
\* name has no title part
NameTitle(fileName) ==
    LET mid    == MiddleOf(fileName)
        dashes == {i \in 1..Len(mid) : mid[i] = "-"}
    IN  IF dashes = {} THEN <<>>
        ELSE LET first == CHOOSE i \in dashes : \A j \in dashes : i <= j
                 slug  == SubSeq(mid, first + 1, Len(mid))
             IN  TitleCase([i \in 1..Len(slug) |->
                               IF slug[i] = "_" THEN " " ELSE slug[i]])

\* the resumed file has a malformed name and a single message, so that no
\* title is generated after the fix
FixedOnResume ==
    /\ pc = "ask"
    /\ isResumedConversation
    /\ MalformedName(selectedConversation)
    /\ Len(clientMessages) <= 1

\* the outcome of the fix when the file is to get the name of title: the id
\* is the start timestamp; the file has the new name and its content, or,
\* when that name is taken or the rename failed, its old name; no other file
\* is touched
FixOutcome(title) ==
    LET before == FilesOf(arg.dir)
        old    == PathJoin(logDir, selectedConversation)
        target == getConversationFileName(logDir, timestamp, title)
    IN  /\ conversationId = timestamp
        /\ clientMessages = before[old]
        /\ \/ currentFilePath = old /\ files = before
           \/ /\ target \notin DOMAIN before
              /\ currentFilePath = target
              /\ files = renameSync(before, old, target)

\* C28: a resumed file with a malformed name gets the start timestamp as its
\* id and the name that id and the title of the old name give, unless that
\* name is taken.
C28_FixKeepsTitle == FixedOnResume => FixOutcome(NameTitle(selectedConversation))

\* what main does: the new name is the untitled name of the start timestamp
C28_FixUntitled == FixedOnResume => FixOutcome(<<>>)

\* the state of the session at a position of main: the selection (with the
\* wait for the title of a resumed conversation), the turn loop, the
\* continuation gate, and the end (the final save and after it)
SessionState ==
    IF pc \in {"select", "resumeTitle"} THEN "SELECTING"
    ELSE IF pc \in {"ask", "initialTitle", "check1", "stream", "check2", "save"}
    THEN "ACTIVE"
    ELSE IF pc = "gate" THEN "CONTINUATION_GATE"
    ELSE "TERMINATED"

AllowedTransitions ==
    {<<"SELECTING", "ACTIVE">>, <<"ACTIVE", "ACTIVE">>,
     <<"ACTIVE", "CONTINUATION_GATE">>, <<"CONTINUATION_GATE", "ACTIVE">>,
     <<"ACTIVE", "TERMINATED">>, <<"CONTINUATION_GATE", "TERMINATED">>,
     <<"TERMINATED", "TERMINATED">>}

\* C29: the session starts in SELECTING and every step is an allowed
\* transition, so TERMINATED is never left; the model client is called at one
\* position of the turn loop only: a step that takes final messages, merges
\* or records ids starts there, in ACTIVE, and the position is reached from
\* the first title check and left by the step, so that a second call starts
\* only after the first one is over.
C29_AllowedTransitions ==
    /\ SessionState = "SELECTING"
    /\ [][(SessionState' # SessionState \/ SessionState # "SELECTING")
            => (<<SessionState, SessionState'>> \in AllowedTransitions)]_vars
    /\ [][(\/ finalMessages' \notin {finalMessages, <<>>}
           \/ knownIds' # knownIds
           \/ steps' \notin {steps, 0})
            => (pc = "stream" /\ SessionState = "ACTIVE")]_vars
    /\ [][pc' = "stream" => pc = "check1"]_vars
    /\ [][pc = "stream" => pc' \in {"check2", "finally"}]_vars

\* the gate is entered for the second time, after a turn forced by the gate
C29_Witness ==
    /\ pc = "gate"
    /\ turns = 2
    /\ \E i \in 1..Len(clientMessages) :
          clientMessages[i] = UserMessage(ContinueInput)
    /\ steps >= MAX_STEPS

\* C30: after a merge that rotates the cache hint, a history that holds an
\* assistant message has exactly one assistant message with a cache hint, and
\* that one is its last assistant message.
C30_HintOnLatestAssistant ==
    (Len(ret) >= 1 /\ arg.cache /\ Assistants(ret[1].history) # {}) =>
        LET hinted == Hinted(ret[1].history) \cap Assistants(ret[1].history)
        IN  /\ Cardinality(hinted) = 1
            /\ \A i \in hinted : IsLastAssistant(ret[1].history, i)

\* C31: a merge leaves the cache hint of every system, user and tool message
\* of the history as it was, whatever the batch and for both values of cache;
\* with cache false the assistant messages keep theirs too, with cache true
\* every assistant message that was in the history is left without hint.
C31_HintFrame ==
    Len(ret) >= 1 =>
        /\ Len(ret[1].history) >= Len(arg.history)
        /\ \A i \in 1..Len(arg.history) :
              /\ arg.history[i].role # "assistant"
                    => ret[1].history[i] = arg.history[i]
              /\ arg.history[i].role = "assistant"
                    => ret[1].history[i].hint
                         = (arg.history[i].hint /\ ~arg.cache)

\* a merge with cache true appended a message to a history that held a
\* hinted assistant message: that one lost its hint, the system message
\* kept its own
C31_Witness ==
    /\ Len(ret) >= 1
    /\ arg.cache
    /\ arg.history[1].role = "system"
    /\ ret[1].history[1].hint
    /\ \E i \in 1..Len(arg.history) :
          /\ arg.history[i].role = "assistant"
          /\ arg.history[i].hint
          /\ ~ret[1].history[i].hint
    /\ Len(ret[1].history) > Len(arg.history)

\* s is a prefix of t
IsPrefix(s, t) == Len(s) <= Len(t) /\ SubSeq(t, 1, Len(s)) = s

\* C32: after the selection every step of the session leaves the history it
\* found as a prefix of the history it leaves, cache hints set aside: no
\* message is removed, moved or changed in role, id or content.
C32_AppendOnly ==
    [][pc # "select"
        => IsPrefix(EraseHints(clientMessages), EraseHints(clientMessages'))]_vars

\* two turns were merged into a resumed history: the loaded messages are
\* still the first ones of the history
C32_Witness ==
    /\ pc = "save"
    /\ turns = 2
    /\ isResumedConversation
    /\ Len(clientMessages) >= Len(HistoryOf4) + 4
    /\ EraseHints(SubSeq(clientMessages, 1, Len(HistoryOf4)))
          = EraseHints(HistoryOf4)

\* C33: after the selection no step changes the conversation id, and a step
\* that moves the session to another file path moves it to the name that id
\* and the new title give.
C33_IdImmutable ==
    /\ [][pc # "select" => conversationId' = conversationId]_vars
    /\ [][(pc # "select" /\ currentFilePath' # currentFilePath)
            => currentFilePath'
                 = getConversationFileName(logDir, conversationId,
                                           currentChatTitle')]_vars

\* a resumed session whose id is not the start timestamp was renamed by a
\* title check of its second turn and still has the id of its old file name
C33_Witness ==
    /\ pc \in {"stream", "save"}
    /\ turns = 2
    /\ isResumedConversation
    /\ conversationId # timestamp
    /\ conversationId = SubSeq(MiddleOf(selectedConversation), 1,
                               Len(timestampPattern))
    /\ currentFilePath # PathJoin(logDir, selectedConversation)
    /\ currentFilePath
          = getConversationFileName(logDir, conversationId, currentChatTitle)

\* ------------------------------------------------------------------------
\* The end of the session
\* ------------------------------------------------------------------------

\* C34, shutdown order: once the session is terminated, the final full
\* rewrite of the session file was performed first and the input reader was
\* released after it, each exactly once; before that neither has happened.
C34_RewriteBeforeRelease ==
    /\ pc = "terminated" => shutdownLog = <<"write", "release">>
    /\ pc # "terminated" => shutdownLog = <<>>

\* C35: after the selection the session id always has the canonical
\* timestamp format, in a fresh session and in a resumed one, a resume of a
\* file with a malformed name included.
C35_IdCanonical == pc # "select" => CanonicalFormat(conversationId)

\* a session resumed from a file with a malformed name has taken a turn
\* under the start timestamp as its id
C35_Witness ==
    /\ pc = "save"
    /\ isResumedConversation
    /\ MalformedName(selectedConversation)
    /\ conversationId = timestamp

\* messageCount is an exact positive multiple of titleInterval, the title is
\* not empty and the first user input is behind
OnExactMultiple ==
    /\ messageCount > 0
    /\ \E k \in 1..messageCount : messageCount = k * titleInterval
    /\ currentChatTitle # <<>>
    /\ ~isFirstUserInput

\* a check point of main calls updateConversationTitle, and with it the
\* summarizer
RefineCall ==
    \E summary \in SummaryOutcomes, ioError \in BOOLEAN :
        Check1Update(summary, ioError) \/ Check2Update(summary, ioError)

\* C36: a check point calls the summarizer for a refined title only when,
\* at that check point, messageCount is an exact positive multiple of
\* titleInterval, the title is not empty and it is not the first user input;
\* at any other check point the title, the file path and the files stay as
\* they are. A turn passes each of its two check points once (the first is
\* entered when the turn starts or from its initial title, the second from
\* the model call, and each is left by its own step), so a turn makes at
\* most two such calls, and none when messageCount is on no multiple at
\* either of them.
C36_RefineOnlyOnMultiples ==
    /\ [][RefineCall => OnExactMultiple]_vars
    /\ [][((pc = "check1" \/ pc = "check2") /\ ~OnExactMultiple)
            => /\ currentChatTitle' = currentChatTitle
               /\ currentFilePath' = currentFilePath
               /\ files' = files]_vars
    /\ [][(pc' = "initialTitle") => (pc = "ask" /\ turns' = turns + 1)]_vars
    /\ [][(pc' = "check1")
            => \/ pc = "ask" /\ turns' = turns + 1
               \/ pc = "initialTitle" /\ turns' = turns]_vars
    /\ [][(pc' = "stream") => (pc = "check1" /\ turns' = turns)]_vars
    /\ [][(pc' = "check2") => (pc = "stream" /\ turns' = turns)]_vars
    /\ [][(pc = "check1") => pc' = "stream"]_vars
    /\ [][(pc = "check2") => pc' = "save"]_vars

\* a turn of a titled session whose batch of two assistant messages took
\* messageCount from 4 to 6, past the multiple 5, is at its save with the
\* title it began with
C36_Witness ==
    /\ pc = "save"
    /\ titleInterval = 5
    /\ messageCount = 6
    /\ Cardinality({i \in 1..Len(finalMessages) :
                       finalMessages[i].role = "assistant"}) = 2
    /\ currentChatTitle # <<>>
    /\ ~isFirstUserInput

\* ------------------------------------------------------------------------
\* The session and the files of the directory
\* ------------------------------------------------------------------------

\* the path of the session's file when the session starts: the selected
\* file, or the untitled name of the start timestamp
OwnStartPath ==
    IF isResumedConversation THEN PathJoin(logDir, selectedConversation)
    ELSE getConversationFileName(logDir, timestamp, <<>>)

\* the paths a step of the session may touch: its file path before and
\* after the step, and while selecting the path of the selected file
OwnPaths ==
    {currentFilePath, currentFilePath'}
        \cup (IF pc = "select" /\ selectedConversation' # <<>>
              THEN {PathJoin(logDir, selectedConversation')} ELSE {})

\* C37: no step of the session (selecting with its renames, turns, title
\* changes, special commands, shutdown) creates, removes or changes a file
\* at a path other than its own file path; a step that moves the session to
\* a new file path never lands on a file that was there; so every file the
\* process found other than the one it resumed is in the directory with its
\* content at every later point, the end of the session included.
C37_OnlyOwnFile ==
    /\ [][\A p \in (DOMAIN files \cup DOMAIN files') \ OwnPaths :
            /\ p \in DOMAIN files
            /\ p \in DOMAIN files'
            /\ files'[p] = files[p]]_vars
    /\ [][(pc # "select" /\ currentFilePath' # currentFilePath)
            => currentFilePath' \notin DOMAIN files]_vars
    /\ [][(pc = "select" /\ currentFilePath' # OwnStartPath')
            => currentFilePath' \notin DOMAIN files]_vars
    /\ [](pc # "select"
            => \A p \in DOMAIN FilesOf(arg) \ {OwnStartPath} :
                  /\ p \in DOMAIN files
                  /\ files[p] = FilesOf(arg)[p])

\* a session started beside another conversation has ended under a file
\* path it took in a title change, with the other file as it was
C37_Witness ==
    /\ pc = "terminated"
    /\ turns >= 1
    /\ currentFilePath # OwnStartPath
    /\ currentFilePath \in DOMAIN files
    /\ \E p \in DOMAIN FilesOf(arg) \ {OwnStartPath} :
          /\ p # currentFilePath
          /\ files[p] = FilesOf(arg)[p]

\* the paths where the directory is not as the process found it: a file that
\* was not there, or one whose content differs
TouchedPaths ==
    {p \in DOMAIN files :
        \/ p \notin DOMAIN FilesOf(arg)
        \/ files[p] # FilesOf(arg)[p]}

\* C38: at every point of a session at most one file of the directory was
\* created or written by it, the one at its file path, and the directory
\* holds no file more than the process found, but for the file of a fresh
\* session; once the session has left the path it started with, no file is
\* at that path; a step that moves the session to a new path takes the file
\* along, content unchanged, and leaves nothing at the old path; and every
\* write lands on the file path of the moment, so no title change leaves a
\* second copy of the conversation.
C38_OneFilePerSession ==
    /\ [](pc # "select" => TouchedPaths \subseteq {currentFilePath})
    /\ [](pc # "select"
            => Cardinality(DOMAIN files)
                  <= Cardinality(DOMAIN FilesOf(arg))
                        + (IF isResumedConversation THEN 0 ELSE 1))
    /\ []((pc # "select" /\ currentFilePath # OwnStartPath)
            => OwnStartPath \notin DOMAIN files)
    /\ [][(pc # "select" /\ currentFilePath' # currentFilePath)
            => /\ currentFilePath \notin DOMAIN files'
               /\ currentFilePath' \in DOMAIN files'
               /\ files'[currentFilePath'] = files[currentFilePath]]_vars
    /\ [][(pc = "save" \/ pc = "finally")
            => /\ currentFilePath' = currentFilePath
               /\ files'[currentFilePath] = clientMessages]_vars

\* a session has left the path it started with in a title change of its
\* second turn; the file is at the new path with the history of that turn,
\* written there by the save after the rename, and nothing is at the old path
C38_Witness ==
    /\ pc = "ask"
    /\ turns = 2
    /\ currentFilePath # OwnStartPath
    /\ OwnStartPath \notin DOMAIN files
    /\ currentFilePath \in DOMAIN files
    /\ files[currentFilePath] = clientMessages
    /\ TouchedPaths = {currentFilePath}

\* ------------------------------------------------------------------------
\* SpecTermination: the session under the assumptions that the calls of the
\* model client and of the summarizer come back and that the user ends the
\* session at some prompt
\* ------------------------------------------------------------------------

\* the turns a user of this scenario starts at most
TerminationTurns == 3

\* the lines the user types: a message, exit, a special command
TerminationInputs == {<<"h", "i">>, ExitInput, HistoryInput}

\* an empty directory, or one conversation to resume
InitTermination ==
    /\ Init
    /\ arg \in {<<>>, <<DirEntry(Ts2, 3, HistoryOf3)>>}

\* the gate of main, lines 339-350, for a user who accepts a continuation
\* only while the turns of the scenario last
GateWithin(answer, readError, maxTurns) ==
    /\ (AnsweredYes(trim(answer)) /\ ~readError) => turns < maxTurns
    /\ Gate(answer, readError)

\* the steps main takes on its own or when a call of the model client or of
\* the summarizer resolves or rejects
CallReturns ==
    \/ \E summary \in SummaryOutcomes, ioError \in BOOLEAN :
          ResumeTitle(summary, ioError)
    \/ \E summary \in SummaryOutcomes, ioError \in BOOLEAN :
          InitialTitle(summary, ioError)
    \/ \E summary \in SummaryOutcomes, ioError \in BOOLEAN :
          Check1Update(summary, ioError)
    \/ Check1Skip
    \/ \E batch \in ScheduleBatches(turns), stepCount \in StepCounts :
          Stream(batch, stepCount)
    \/ StreamRejects
    \/ \E summary \in SummaryOutcomes, ioError \in BOOLEAN :
          Check2Update(summary, ioError)
    \/ Check2Skip
    \/ Save
    \/ Finally

\* after an accepted continuation main takes "continue" as the input of the
\* next pass without asking (lines 207-209)
ContinuesUnasked ==
    /\ pc = "ask"
    /\ skipNextQuestion
    /\ ReadInputWithin(ContinueInput, TerminationTurns)

\* the user enters exit at the prompt, or answers a gate with something
\* other than yes
UserEnds ==
    \/ pc = "ask" /\ ~skipNextQuestion
          /\ ReadInputWithin(ExitInput, TerminationTurns)
    \/ \E answer \in GateAnswers :
          ~AnsweredYes(trim(answer))
              /\ GateWithin(answer, FALSE, TerminationTurns)

NextTermination ==
    \/ \E answer \in SelectAnswers : Select(answer, FALSE)
    \/ \E line \in TerminationInputs :
          ReadInputWithin(line, TerminationTurns)
    \/ CallReturns
    \/ \E answer \in GateAnswers, readError \in BOOLEAN :
          GateWithin(answer, readError, TerminationTurns)

SpecTermination ==
    /\ InitTermination
    /\ [][NextTermination]_vars
    /\ WF_vars(CallReturns \/ ContinuesUnasked)
    /\ SF_vars(UserEnds)

\* the session is over and its file holds the whole history
TerminatedAndSaved ==
    /\ pc = "terminated"
    /\ currentFilePath \in DOMAIN files
    /\ files[currentFilePath] = clientMessages

\* C39: when the calls of the model client and of the summarizer come back
\* and the user at some prompt enters exit or refuses a continuation, every
\* session that has started reaches its end with the final rewrite done;
\* and in no state before the end is the loop without a next step.
C39_Termination ==
    /\ (pc # "select") ~> TerminatedAndSaved
    /\ [](pc # "terminated" => ENABLED NextTermination)

\* a session has ended in its last turn, at a gate the user refused after
\* accepting an earlier one, with its file written
C39_Witness ==
    /\ TerminatedAndSaved
    /\ turns = TerminationTurns
    /\ steps = MAX_STEPS
    /\ userInput = ContinueInput
    /\ ~skipNextQuestion
    /\ Len(clientMessages) > TerminationTurns

====
